---- MODULE Spec2Model ----
(***************************************************************************)
(* CarrotQuant backend: the storage writer (core/storage.py), the query    *)
(* builder (core/sql_builder.py), the retrieval engine (services/data.py)  *)
(* and the 2-D fill processors (services/utils/processor.py).              *)
(*                                                                         *)
(* Floating point cells are written as strings ("nan", "inf", "1.0", ...); *)
(* no arithmetic is done on them by the modelled code.  A name that takes  *)
(* part in the pivot column naming is the sequence of its "_"-separated    *)
(* segments, so that "A_change" + "_" + "amount" and "A" + "_" +           *)
(* "change_amount" are the same column name, as they are in Python.        *)
(***************************************************************************)
EXTENDS Integers, Sequences, FiniteSets, TLC

VARIABLES
    farr,   \* fill processors: the caller's array
    fops,   \* fill processors: the calls made so far, oldest first
    fret,   \* fill processors: the array each call returned
    disk,   \* data directory: parquet file path -> file content
    dirs,   \* data directory: the directories that exist
    last,   \* the last DuckDBStorage call: its arguments and how it ended
    nw,     \* the number of DuckDBStorage calls made so far
    res,    \* the load_market_data call whose container is with its caller
    acc,    \* a TableData and the last accessor call made on it
    tasks,  \* MarketDataManager.tasks: task id -> DownloadTask
    stop_events,    \* MarketDataManager.stop_events: task id -> whether set
    run,    \* task id -> where the task's background coroutine stands
    stops   \* the stop_task and start_market_download_task calls answered so far

mgr == <<tasks, stop_events, run, stops>>

vars == <<farr, fops, fret, disk, dirs, last, nw, res, acc, mgr>>

----------------------------------------------------------------------------
(* Bounds of the model *)

MaxCells == 5
MaxApply == 2
MaxWrites == 2

----------------------------------------------------------------------------
(* IEEE doubles as numpy sees them *)

NaN == "nan"
PosInf == "inf"
NegInf == "-inf"
Zero == "0.0"
FloatMax == "1.7976931348623157e308"
FloatMin == "-1.7976931348623157e308"

isnan(v) == v = NaN

\* A 2-D ndarray: shape (nrows, ncols), cells indexed from 0 as in numpy.
Array(r, c, cellsOf) == [nrows |-> r, ncols |-> c, cells |-> cellsOf]

Rows(arr) == 0 .. (arr.nrows - 1)
Cols(arr) == 0 .. (arr.ncols - 1)

Max2(a, b) == IF a >= b THEN a ELSE b

----------------------------------------------------------------------------
(* services/utils/processor.py *)

\* idx = np.where(~mask, np.arange(mask.shape[0])[:, None], 0)
FfillIdx(arr, i, c) == IF ~isnan(arr.cells[<<i, c>>]) THEN i ELSE 0

\* np.maximum.accumulate(idx, axis=0, out=idx), cell (i, c)
RECURSIVE MaxAccumulate(_, _, _)
MaxAccumulate(arr, i, c) ==
    IF i = 0 THEN FfillIdx(arr, 0, c)
    ELSE Max2(MaxAccumulate(arr, i - 1, c), FfillIdx(arr, i, c))

\* A fill that looks one row back only (no accumulate).
ffill_2d_shift(arr) ==
    Array(arr.nrows, arr.ncols,
          [p \in Rows(arr) \X Cols(arr) |->
              IF isnan(arr.cells[p]) /\ p[1] > 0
              THEN arr.cells[<<p[1] - 1, p[2]>>]
              ELSE arr.cells[p]])

\* A fill that gathers from column 0 whatever the column.
ffill_2d_col0(arr) ==
    Array(arr.nrows, arr.ncols,
          [p \in Rows(arr) \X Cols(arr) |->
              arr.cells[<<MaxAccumulate(arr, p[1], p[2]), 0>>]])

\* return arr[idx, col_idx]
ffill_2d(arr) ==
    Array(arr.nrows, arr.ncols,
          [p \in Rows(arr) \X Cols(arr) |->
              arr.cells[<<MaxAccumulate(arr, p[1], p[2]), p[2]>>]])

\* np.nan_to_num(x, nan=0.0) with posinf and neginf left at their defaults:
\* numpy replaces +inf and -inf by the largest and smallest finite double.
nan_to_num(v) ==
    CASE v = NaN    -> Zero
      [] v = PosInf -> FloatMax
      [] v = NegInf -> FloatMin
      [] OTHER      -> v

\* return np.nan_to_num(arr, nan=0.0)   (copy=True: a new array)
zero_fill(arr) ==
    Array(arr.nrows, arr.ncols,
          [p \in Rows(arr) \X Cols(arr) |-> nan_to_num(arr.cells[p])])

----------------------------------------------------------------------------
(* models/market.py *)

DATA_SCHEMA ==
    [trade_date |-> "DATE", stock_code |-> "VARCHAR", stock_name |-> "VARCHAR",
     sector_name |-> "VARCHAR", concept_name |-> "VARCHAR",
     industry_name |-> "VARCHAR", open |-> "DOUBLE", close |-> "DOUBLE",
     high |-> "DOUBLE", low |-> "DOUBLE", volume |-> "DOUBLE",
     amount |-> "DOUBLE", amplitude |-> "DOUBLE", pct_change |-> "DOUBLE",
     change_amount |-> "DOUBLE", turnover |-> "DOUBLE",
     outstanding_share |-> "DOUBLE"]

EmFields ==
    <<"open", "close", "high", "low", "volume", "amount", "amplitude",
      "pct_change", "change_amount", "turnover">>

SinaFields ==
    <<"open", "close", "high", "low", "volume", "amount",
      "outstanding_share", "turnover">>

MatrixEntry(id, flds) ==
    [load_mode |-> "matrix", storage_type |-> "partition", id_col |-> id,
     fields |-> flds, ffill_cols |-> <<"open", "close", "high", "low">>,
     zerofill_cols |-> <<"volume", "amount", "turnover">>]

MappingEntry(st, id, val) ==
    [load_mode |-> "mapping", storage_type |-> st, id_col |-> id, val_col |-> val]

TABLE_REGISTRY ==
    [cn_stock_em_daily_adj   |-> MatrixEntry("stock_code", EmFields),
     cn_stock_em_daily_raw   |-> MatrixEntry("stock_code", EmFields),
     cn_stock_sina_daily_adj |-> MatrixEntry("stock_code", SinaFields),
     cn_stock_sina_daily_raw |-> MatrixEntry("stock_code", SinaFields),
     cn_sector_em_daily_raw  |-> MatrixEntry("sector_name", EmFields),
     cn_sector_em_daily_adj  |-> MatrixEntry("sector_name", EmFields),
     stock_sector_map        |-> MappingEntry("partition", "stock_code", "sector_name"),
     cn_stock_em             |-> MappingEntry("snapshot", "stock_code", "stock_name"),
     cn_sector_em            |-> MappingEntry("snapshot", "sector_name", "sector_name"),
     cn_concept_em           |-> MappingEntry("snapshot", "concept_name", "concept_name")]

----------------------------------------------------------------------------
(* Strings, dates and DataFrames *)

\* A VARCHAR value is the sequence of its "_"-separated segments.  StrOrder
\* lists the ones the model uses in Python's (and DuckDB's) string order.
StrOrder ==
    << <<"A">>, <<"A", "change">>, <<"B">>, <<"Bank">>, <<"Steel">> >>

StrRank(x) == CHOOSE i \in DOMAIN StrOrder : StrOrder[i] = x

\* A date is the integer yyyymmdd; str(date) and CAST(.. AS VARCHAR) keep its order.
Date(y, m, d) == y * 10000 + m * 100 + d
YearOf(d) == d \div 10000

SeqToSet(s) == {s[i] : i \in DOMAIN s}
InSeq(x, s) == \E i \in DOMAIN s : s[i] = x

MinOf(S) == CHOOSE k \in S : \A j \in S : k <= j
MaxOf(S) == CHOOSE k \in S : \A j \in S : k >= j

\* pandas.DataFrame: the column labels in order, and the rows (column -> value).
DataFrame(cols, rws) == [columns |-> cols, rows |-> rws]

\* df.empty: an axis of length 0
\* No batch counts as empty.
DfEmpty_never(df) == FALSE

DfEmpty(df) == Len(df.rows) = 0 \/ Len(df.columns) = 0

\* df.drop_duplicates(): the first occurrence of every row, in order
RECURSIVE DropDupRows(_)
DropDupRows(rws) ==
    IF rws = <<>> THEN <<>>
    ELSE LET front == DropDupRows(SubSeq(rws, 1, Len(rws) - 1))
             r == rws[Len(rws)]
         IN  IF InSeq(r, front) THEN front ELSE Append(front, r)

\* The batch with every row kept.
drop_duplicates_keep_all(df) == df

drop_duplicates(df) == DataFrame(df.columns, DropDupRows(df.rows))

----------------------------------------------------------------------------
(* core/sql_builder.py: the COPY statements *)

NoCol == "<none>"

\* build_save_table_sql: the first column of actual_columns its loop raises
\* KeyError for, NoCol when the loop completes.
RECURSIVE TableKeyError(_)
TableKeyError(cols) ==
    IF cols = <<>> THEN NoCol
    ELSE IF Head(cols) \notin DOMAIN DATA_SCHEMA THEN Head(cols)
    ELSE TableKeyError(Tail(cols))

build_save_table_sql(cols) == TableKeyError(cols)

\* build_save_parquet_sql: the same loop, but "year" is let through before
\* DATA_SCHEMA is consulted.
RECURSIVE ParquetKeyError(_)
ParquetKeyError(cols) ==
    IF cols = <<>> THEN NoCol
    ELSE IF Head(cols) = "year" THEN ParquetKeyError(Tail(cols))
    ELSE IF Head(cols) \notin DOMAIN DATA_SCHEMA THEN Head(cols)
    ELSE ParquetKeyError(Tail(cols))

\* The partition builder without its "year" branch.
build_save_parquet_sql_no_year(cols) == TableKeyError(cols)

build_save_parquet_sql(cols) == ParquetKeyError(cols)

\* CAST("col" AS type) of one DataFrame value.  The DataFrames of the model
\* hold "x" where a value cannot be converted to DOUBLE.
SqlType(col) == IF col = "year" THEN "INTEGER" ELSE DATA_SCHEMA[col]
CastFails(col, v) == SqlType(col) = "DOUBLE" /\ v = "x"

\* A Python int becomes the double of the same value; None and NaN are NULL,
\* which the readers below see as "nan".
Cast(col, v) ==
    IF SqlType(col) # "DOUBLE" THEN v
    ELSE CASE v = "1" -> "1.0"
           [] v = "2" -> "2.0"
           [] OTHER   -> v

CastRow(cols, r) == [c \in {cols[k] : k \in DOMAIN cols} |-> Cast(c, r[c])]
CastRows(df) == [i \in DOMAIN df.rows |-> CastRow(df.columns, df.rows[i])]

\* Columns an ORDER BY clause names, "trade_date, stock_code" -> two names.
RowLeq(a, b, order_by) ==
    LET RECURSIVE Leq(_)
        Leq(k) ==
            IF k > Len(order_by) THEN TRUE
            ELSE LET col == order_by[k]
                     x == IF col = "trade_date" THEN a[col] ELSE StrRank(a[col])
                     y == IF col = "trade_date" THEN b[col] ELSE StrRank(b[col])
                 IN  IF x < y THEN TRUE
                     ELSE IF x > y THEN FALSE
                     ELSE Leq(k + 1)
    IN  Leq(1)

Injections(n) == {p \in [1 .. n -> 1 .. n] : \A i, j \in 1 .. n : p[i] = p[j] => i = j}

\* Every order ORDER BY may leave the rows in: rows with equal keys come out
\* in any order.
OrderBy(rws, order_by) ==
    {s \in {[i \in 1 .. Len(rws) |-> rws[p[i]]] : p \in Injections(Len(rws))} :
        \A i \in 1 .. (Len(s) - 1) : RowLeq(s[i], s[i + 1], order_by)}

\* What conn.execute(COPY ...) needs to succeed: the ORDER BY columns exist,
\* every value casts, and the file system takes the file.
ExecuteFails(df, order_by, fsok) ==
    \/ ~fsok
    \/ \E k \in DOMAIN order_by : ~InSeq(order_by[k], df.columns)
    \/ \E i \in DOMAIN df.rows : \E k \in DOMAIN df.columns :
          CastFails(df.columns[k], df.rows[i][df.columns[k]])

----------------------------------------------------------------------------
(* core/storage.py *)

\* A parquet file: absent, or the rows it holds with their column labels.
NoFile == [exists |-> FALSE, columns |-> <<>>, rows |-> <<>>]
File(cols, rws) == [exists |-> TRUE, columns |-> cols, rows |-> rws]

\* {root}/{table}/year={year}/{year}-{month:02d}.parquet
MonthPath(table_name, year, month) == <<table_name, year, month>>
\* f"{year}-{month:02d}": the year and the two digits of the month
FileName(year, month) == <<year, "-", month \div 10, month % 10>>
\* {root}/{table}/{table}.parquet
SnapshotPath(table_name) == <<table_name>>

MonthOrderBy(cols) ==
    IF InSeq("sector_name", cols) THEN <<"trade_date", "sector_name">>
    ELSE IF InSeq("stock_code", cols) THEN <<"trade_date", "stock_code">>
    ELSE <<"trade_date">>

SnapshotOrderBy(cols) ==
    IF InSeq("stock_code", cols) THEN <<"stock_code">>
    ELSE IF InSeq("sector_name", cols) THEN <<"sector_name">>
    ELSE <<cols[1]>>

\* How the call ends, for a non-empty df.
WriteStatus(keyerr, df, order_by, fsok) ==
    IF keyerr # NoCol THEN "KeyError"
    ELSE IF ExecuteFails(df, order_by, fsok) THEN "WriteFailed"
    ELSE "ok"

\* save_month with the unlink moved ahead of the SQL builder.
MonthFile_unlink_first(df, prev, fsok, sorted) ==
    IF build_save_parquet_sql(df.columns) # NoCol THEN NoFile
    ELSE IF ExecuteFails(df, MonthOrderBy(df.columns), fsok) THEN NoFile
    ELSE File(df.columns, sorted)

\* save_month that adds the batch to the file it finds.
MonthFile_append(df, prev, fsok, sorted) ==
    IF build_save_parquet_sql(df.columns) # NoCol THEN prev
    ELSE IF ExecuteFails(df, MonthOrderBy(df.columns), fsok) THEN NoFile
    ELSE File(df.columns, prev.rows \o sorted)

\* The file at file_path when save_month returns or raises (lines 48-62):
\* the SQL is built first, then the old file is unlinked, then COPY runs.
MonthFile(df, prev, fsok, sorted) ==
    IF build_save_parquet_sql(df.columns) # NoCol THEN prev
    ELSE IF ExecuteFails(df, MonthOrderBy(df.columns), fsok) THEN NoFile
    ELSE File(df.columns, sorted)

\* The file at file_path when save_snapshot returns or raises (lines 99-113).
SnapshotFile(df, prev, fsok, sorted) ==
    IF build_save_table_sql(df.columns) # NoCol THEN prev
    ELSE IF ExecuteFails(df, SnapshotOrderBy(df.columns), fsok) THEN NoFile
    ELSE File(df.columns, sorted)

NoCall ==
    [op |-> "none", status |-> "none", err |-> NoCol, path |-> <<>>,
     df |-> DataFrame(<<>>, <<>>), fsok |-> TRUE, prev |-> NoFile]

\* Whether COPY gets as far as creating the file: the file system is asked for
\* it only then.
MonthCopyWrites(df) ==
    /\ ~DfEmpty(df)
    /\ WriteStatus(build_save_parquet_sql(df.columns), df, MonthOrderBy(df.columns), TRUE) = "ok"

SnapshotCopyWrites(df) ==
    /\ ~DfEmpty(df)
    /\ WriteStatus(build_save_table_sql(drop_duplicates(df).columns), drop_duplicates(df),
                   SnapshotOrderBy(df.columns), TRUE) = "ok"

\* The row orders COPY may write; only a statement that runs orders anything.
Written(df, keyerr, order_by, fsok) ==
    IF WriteStatus(keyerr, df, order_by, fsok) = "ok"
    THEN OrderBy(CastRows(df), order_by)
    ELSE {<<>>}

\* DuckDBStorage.save_month(df, table_name, year, month); fsok is whether the
\* file system takes the new file.
save_month(df, table_name, year, month, fsok) ==
    LET path == MonthPath(table_name, year, month)
        keyerr == build_save_parquet_sql(df.columns)
        order_by == MonthOrderBy(df.columns)
    IN  IF DfEmpty(df)
        THEN /\ last' = [op |-> "save_month", status |-> "skipped", err |-> NoCol,
                         path |-> path, df |-> df, fsok |-> fsok, prev |-> disk[path]]
             /\ UNCHANGED <<disk, dirs>>
        ELSE /\ dirs' = dirs \cup {<<table_name>>, <<table_name, year>>}
             /\ \E sorted \in Written(df, keyerr, order_by, fsok) :
                    disk' = [disk EXCEPT ![path] = MonthFile(df, disk[path], fsok, sorted)]
             /\ last' = [op |-> "save_month",
                         status |-> WriteStatus(keyerr, df, order_by, fsok),
                         err |-> keyerr, path |-> path, df |-> df, fsok |-> fsok, prev |-> disk[path]]

\* DuckDBStorage.save_snapshot(df, table_name)
save_snapshot(df0, table_name, fsok) ==
    LET path == SnapshotPath(table_name)
        df == drop_duplicates(df0)
        keyerr == build_save_table_sql(df.columns)
        order_by == SnapshotOrderBy(df.columns)
    IN  IF DfEmpty(df0)
        THEN /\ last' = [op |-> "save_snapshot", status |-> "skipped", err |-> NoCol,
                         path |-> path, df |-> df0, fsok |-> fsok, prev |-> disk[path]]
             /\ UNCHANGED <<disk, dirs>>
        ELSE /\ dirs' = dirs \cup {<<table_name>>}
             /\ \E sorted \in Written(df, keyerr, order_by, fsok) :
                    disk' = [disk EXCEPT ![path] = SnapshotFile(df, disk[path], fsok, sorted)]
             /\ last' = [op |-> "save_snapshot",
                         status |-> WriteStatus(keyerr, df, order_by, fsok),
                         err |-> keyerr, path |-> path, df |-> df0, fsok |-> fsok, prev |-> disk[path]]

----------------------------------------------------------------------------
(* services/data.py: get_storage_metadata (the "Stashed changes" side of the
   conflict hunk at lines 51-60, the one core/sql_builder.py matches) *)

IsSnapshot(t) == TABLE_REGISTRY[t].storage_type = "snapshot"

\* os.path.exists(t_path)
TablePathExists(t) ==
    IF IsSnapshot(t)
    THEN SnapshotPath(t) \in DOMAIN disk /\ disk[SnapshotPath(t)].exists
    ELSE <<t>> \in dirs

\* The parquet files the metadata statement reads.
TableFiles(t) ==
    IF IsSnapshot(t) THEN {SnapshotPath(t)}
    ELSE {p \in DOMAIN disk : Len(p) = 3 /\ p[1] = t /\ disk[p].exists}

\* build_metadata_sql(t_path) without the flag: is_timeseries defaults to True.
IsTimeseries_default(t) == TRUE

IsTimeseries(t) ==
    TABLE_REGISTRY[t].load_mode = "matrix" \/ TABLE_REGISTRY[t].storage_type = "partition"

\* self.conn.execute(sql) raising: no file matches the glob, or trade_date is
\* asked of a file that has no such column.
MetadataSqlFails(t) ==
    \/ TableFiles(t) = {}
    \/ IsTimeseries(t) /\ \E p \in TableFiles(t) : ~InSeq("trade_date", disk[p].columns)

RowCount(t) ==
    LET RECURSIVE Sum(_)
        Sum(S) == IF S = {} THEN 0
                  ELSE LET p == CHOOSE q \in S : TRUE
                       IN  Len(disk[p].rows) + Sum(S \ {p})
    IN  Sum(TableFiles(t))

TableDates(t) ==
    UNION {{disk[p].rows[i].trade_date : i \in DOMAIN disk[p].rows} : p \in TableFiles(t)}

NullDate == 0

\* t_path (lines 40-45)
TablePath(t) == IF IsSnapshot(t) THEN SnapshotPath(t) ELSE <<t>>

\* An entry that holds the audit's three columns only.
MetaOf_audit_row(t) ==
    [start_date |-> IF IsTimeseries(t) THEN MinOf(TableDates(t)) ELSE NullDate,
     end_date |-> IF IsTimeseries(t) THEN MaxOf(TableDates(t)) ELSE NullDate,
     row_count |-> RowCount(t)]

MetaOf(t) ==
    [start_date |-> IF IsTimeseries(t) THEN MinOf(TableDates(t)) ELSE NullDate,
     end_date |-> IF IsTimeseries(t) THEN MaxOf(TableDates(t)) ELSE NullDate,
     row_count |-> RowCount(t),
     path |-> TablePath(t),
     storage_type |-> TABLE_REGISTRY[t].storage_type]

\* The tables get_storage_metadata returns an entry for.
MetaTables ==
    {t \in DOMAIN TABLE_REGISTRY :
        /\ TablePathExists(t)
        /\ ~MetadataSqlFails(t)
        /\ RowCount(t) > 0}

get_storage_metadata == [t \in MetaTables |-> MetaOf(t)]

----------------------------------------------------------------------------
(* core/sql_builder.py: build_pivot_sql, as DuckDB runs it *)

\* The "_"-separated segments of the field names.
Segs ==
    [open |-> <<"open">>, close |-> <<"close">>, high |-> <<"high">>,
     low |-> <<"low">>, volume |-> <<"volume">>, amount |-> <<"amount">>,
     amplitude |-> <<"amplitude">>, pct_change |-> <<"pct", "change">>,
     change_amount |-> <<"change", "amount">>, turnover |-> <<"turnover">>,
     outstanding_share |-> <<"outstanding", "share">>]

\* f"{s}_{f}"
ColName(s, f) == s \o Segs[f]

\* k.endswith("_" + f): the segments of f end k and something precedes them.
EndsWithField(k, f) ==
    /\ Len(k) > Len(Segs[f])
    /\ SubSeq(k, Len(k) - Len(Segs[f]) + 1, Len(k)) = Segs[f]

\* k[:-len(field_suffix)]
StripField(k, f) == SubSeq(k, 1, Len(k) - Len(Segs[f]))

RECURSIVE Concat(_)
Concat(ss) == IF ss = <<>> THEN <<>> ELSE Head(ss) \o Concat(Tail(ss))

RECURSIVE SortedSeq(_)
SortedSeq(S) ==
    IF S = {} THEN <<>>
    ELSE LET x == CHOOSE y \in S : \A z \in S : y <= z
         IN  <<x>> \o SortedSeq(S \ {x})

\* sorted(list(raw_symbols)) in the reverse order.
RECURSIVE SortedStrs_descending(_)
SortedStrs_descending(S) ==
    IF S = {} THEN <<>>
    ELSE LET x == CHOOSE y \in S : \A z \in S : StrRank(y) >= StrRank(z)
         IN  <<x>> \o SortedStrs_descending(S \ {x})

RECURSIVE SortedStrs(_)
SortedStrs(S) ==
    IF S = {} THEN <<>>
    ELSE LET x == CHOOSE y \in S : \A z \in S : StrRank(y) <= StrRank(z)
         IN  <<x>> \o SortedStrs(S \ {x})

RECURSIVE Filter(_, _, _)
Filter(rws, lo, hi) ==
    IF rws = <<>> THEN <<>>
    ELSE IF lo <= Head(rws).trade_date /\ Head(rws).trade_date <= hi
         THEN <<Head(rws)>> \o Filter(Tail(rws), lo, hi)
         ELSE Filter(Tail(rws), lo, hi)

RECURSIVE Distinct(_)
Distinct(s) ==
    IF s = <<>> THEN <<>>
    ELSE LET front == Distinct(SubSeq(s, 1, Len(s) - 1))
         IN  IF InSeq(s[Len(s)], front) THEN front ELSE Append(front, s[Len(s)])

\* year=Y/*.parquet of table t, for the years given: the files in path order.
GlobPaths(t, years) ==
    LET S == {p \in DOMAIN disk : Len(p) = 3 /\ p[1] = t /\ p[2] \in years /\ disk[p].exists}
        RECURSIVE Ordered(_)
        Ordered(R) ==
            IF R = {} THEN <<>>
            ELSE LET p == CHOOSE q \in R : \A r \in R : Date(q[2], q[3], 0) <= Date(r[2], r[3], 0)
                 IN  <<p>> \o Ordered(R \ {p})
    IN  Ordered(S)

\* read_parquet([...], hive_partitioning=true): the rows of the files, in order.
\* A scan that serves, for the path of the last write, the rows the path held
\* before that write.
ScanRows_stale(paths) ==
    Concat([k \in DOMAIN paths |->
               IF paths[k] = last.path THEN last.prev.rows ELSE disk[paths[k]].rows])

ScanRows(paths) == Concat([k \in DOMAIN paths |-> disk[paths[k]].rows])

\* FIRST(f) of the group (t = d, s = sym): the value of the group's first
\* row, NULL ("nan") for an empty group.
First(rws, id_col, d, sym, f) ==
    LET G == {i \in DOMAIN rws : rws[i].trade_date = d /\ rws[i][id_col] = sym}
    IN  IF G = {} THEN NaN ELSE rws[MinOf(G)][f]

\* FIRST that keeps the group's last row.
PivotCell_last(rws, id_col, d, sym, f) ==
    LET G == {i \in DOMAIN rws : rws[i].trade_date = d /\ rws[i][id_col] = sym}
    IN  IF G = {} THEN NaN ELSE rws[MaxOf(G)][f]

PivotCell(rws, id_col, d, sym, f) == First(rws, id_col, d, sym, f)

\* The PIVOT result: the column t (the dates of the rows in range, ascending)
\* and, for every symbol of the IN list and every field, the column
\* "{symbol}_{field}".
PivotResult(paths, id_col, fields, start_date, end_date, symbols) ==
    LET scan == ScanRows(paths)
        rws == Filter(scan, start_date, end_date)
        syms == IF symbols # <<>> THEN symbols
                ELSE Distinct([i \in DOMAIN scan |-> scan[i][id_col]])
        t == SortedSeq({rws[i].trade_date : i \in DOMAIN rws})
        pairs == Concat([a \in DOMAIN syms |-> [b \in DOMAIN fields |-> <<syms[a], fields[b]>>]])
    IN  [t |-> t,
         cols |-> [k \in DOMAIN pairs |->
                      [name |-> ColName(pairs[k][1], pairs[k][2]),
                       vals |-> [i \in DOMAIN t |->
                                   PivotCell(rws, id_col, t[i], pairs[k][1], pairs[k][2])]]]]

\* fetchnumpy(): a dict keyed by column name.  Of two columns with one name
\* the dict keeps one: the first (the other renamed) or the last (overwritten).
FetchNumpy(pivot, dup) ==
    [k \in {pivot.cols[i].name : i \in DOMAIN pivot.cols} |->
        LET I == {i \in DOMAIN pivot.cols : pivot.cols[i].name = k}
        IN  pivot.cols[IF dup = "first" THEN MinOf(I) ELSE MaxOf(I)].vals]

----------------------------------------------------------------------------
(* services/data.py: the matrix track *)

\* raw_symbols: suffix matching on the first field
RawSymbols(clean_dict, fields) ==
    {StripField(k, fields[1]) : k \in {j \in DOMAIN clean_dict : EndsWithField(j, fields[1])}}

RecoverSymbols(clean_dict, fields) == RawSymbols(clean_dict, fields)

\* mat for field f, before the fill (lines 160-169)
BuildMat(clean_dict, timeline, unique_symbols, f) ==
    Array(Len(timeline), Len(unique_symbols),
          [p \in (0 .. (Len(timeline) - 1)) \X (0 .. (Len(unique_symbols) - 1)) |->
              LET k == ColName(unique_symbols[p[2] + 1], f)
              IN  IF k \in DOMAIN clean_dict THEN clean_dict[k][p[1] + 1] ELSE NaN])

\* The fill policy with the two branches exchanged.
FillPolicy_swapped(config, f, mat) ==
    IF InSeq(f, config.zerofill_cols) THEN ffill_2d(mat)
    ELSE IF InSeq(f, config.ffill_cols) THEN zero_fill(mat)
    ELSE mat

\* lines 171-175
FillPolicy(config, f, mat) ==
    IF InSeq(f, config.zerofill_cols) THEN zero_fill(mat)
    ELSE IF InSeq(f, config.ffill_cols) THEN ffill_2d(mat)
    ELSE mat

\* TableData(name, timeline, symbols, data)
TableData(name, timeline, symbols, data) ==
    [name |-> name, timeline |-> timeline, symbols |-> symbols, data |-> data]

\* Two pivoted columns share a name.
HasDupNames(pivot) ==
    \E i, j \in DOMAIN pivot.cols : i # j /\ pivot.cols[i].name = pivot.cols[j].name

\* The arguments of load_market_data.
Request(table_names, start_date, end_date, symbols) ==
    [table_names |-> table_names, start_date |-> start_date,
     end_date |-> end_date, symbols |-> symbols]

NoRequest == Request(<<>>, NullDate, NullDate, <<>>)

\* What a call hands back: an exception (status, with its arguments in err)
\* or, under "ok", the tables, beside them the matrices before the fill and
\* the year partitions read.
Raise(status, table, start_date, end_date) ==
    [status |-> status,
     err |-> [table |-> table, start_date |-> start_date, end_date |-> end_date],
     req |-> NoRequest, tables |-> <<>>, raw |-> <<>>, years |-> {}]

Ok(tables, raw) ==
    [status |-> "ok", err |-> [table |-> "", start_date |-> NullDate, end_date |-> NullDate],
     req |-> NoRequest, tables |-> tables, raw |-> raw, years |-> {}]

\* lines 158-178: one TableData per field under {table}_{field}
TrackResults(t_name, config, clean_dict, timeline, unique_symbols) ==
    Ok([n \in {<<t_name, f>> : f \in SeqToSet(config.fields)} |->
           TableData(n, timeline, unique_symbols,
                     FillPolicy(config, n[2],
                                BuildMat(clean_dict, timeline, unique_symbols, n[2])))],
       [n \in {<<t_name, f>> : f \in SeqToSet(config.fields)} |->
           BuildMat(clean_dict, timeline, unique_symbols, n[2])])

\* lines 141-156: the symbols and the timeline out of clean_dict
Reshape(t_name, config, clean_dict, timeline) ==
    TrackResults(t_name, config, clean_dict, timeline,
                 SortedStrs(RecoverSymbols(clean_dict, config.fields)))

\* lines 136-139: fetchnumpy() of the pivot; {} when it has no row
Fetched(t_name, config, pivot, dup) ==
    IF dup = "BinderError" /\ HasDupNames(pivot)
    THEN Raise("BinderError", t_name, NullDate, NullDate)
    ELSE IF Len(pivot.t) = 0 THEN Ok(<<>>, <<>>)
    ELSE Reshape(t_name, config, FetchNumpy(pivot, dup), pivot.t)

\* _load_matrix_track.  duckdb says how the engine treats what the statement
\* leaves open: the sub-select in the IN list (run, or refused by the parser)
\* and two result columns of one name (the first kept, the last kept, or
\* refused).
load_matrix_track(t_name, config, paths, start_date, end_date, symbols, duckdb) ==
    IF symbols = <<>> /\ duckdb.subquery = "ParserError"
    THEN Raise("ParserError", t_name, NullDate, NullDate)
    ELSE Fetched(t_name, config,
                 PivotResult(paths, config.id_col, config.fields, start_date, end_date, symbols),
                 duckdb.dup)

----------------------------------------------------------------------------
(* services/data.py: the mapping track (the "Stashed changes" side of the
   conflict hunk at lines 185-228; the other side calls build_select_sql,
   which no module defines) *)

RECURSIVE SelectWhere(_, _, _)
SelectWhere(rws, id_col, symbols) ==
    IF rws = <<>> THEN <<>>
    ELSE IF InSeq(Head(rws)[id_col], symbols)
         THEN <<Head(rws)>> \o SelectWhere(Tail(rws), id_col, symbols)
         ELSE SelectWhere(Tail(rws), id_col, symbols)

\* build_snapshot_query_sql(parquet_path, fields, filters), as DuckDB runs it
SnapshotQuery(path, fields, id_col, symbols) ==
    LET rws == IF symbols # <<>> THEN SelectWhere(disk[path].rows, id_col, symbols)
               ELSE disk[path].rows
    IN  [i \in DOMAIN rws |-> [c \in SeqToSet(fields) |-> rws[i][c]]]

\* lines 236-238
MappingData(t_name, id_col, records) ==
    Ok(<<t_name>> :> TableData(<<t_name>>, <<>>,
                               [i \in DOMAIN records |-> records[i][id_col]],
                               [type |-> "list", items |-> records]),
       <<>>)

\* _load_mapping_track: config["fields"] raises KeyError for an entry without
\* "fields"; otherwise data is the list of the records.
load_mapping_track(t_name, config, paths, start_date, end_date, symbols) ==
    IF "fields" \notin DOMAIN config
    THEN Raise("KeyError", t_name, NullDate, NullDate)
    ELSE MappingData(t_name, config.id_col,
                     SnapshotQuery(paths[1], config.fields, config.id_col, symbols))

----------------------------------------------------------------------------
(* services/data.py: load_market_data *)

\* The year directories whose year is the first requested year only.
YearsInRange_start_year(t, start_date, end_date) ==
    {d[2] : d \in {e \in dirs : Len(e) = 2 /\ e[1] = t /\ YearOf(start_date) = e[2]}}

\* os.listdir(t_dir), the "year=" directories within the requested years
YearsInRange(t, start_date, end_date) ==
    {d[2] : d \in {e \in dirs : Len(e) = 2 /\ e[1] = t
                                 /\ YearOf(start_date) <= e[2] /\ e[2] <= YearOf(end_date)}}

\* A glob of parquet_paths that matches no file: read_parquet raises.
EmptyGlob(t, years) ==
    \E y \in years : ~\E p \in DOMAIN disk : Len(p) = 3 /\ p[1] = t /\ p[2] = y /\ disk[p].exists

\* lines 118-124: the track of the table's load_mode
Track(t_name, config, parquet_paths, start_date, end_date, symbols, duckdb) ==
    IF config.load_mode = "matrix"
    THEN load_matrix_track(t_name, config, parquet_paths, start_date, end_date, symbols, duckdb)
    ELSE load_mapping_track(t_name, config, parquet_paths, start_date, end_date, symbols)

\* lines 97-124: the paths of a table that has metadata, then its track
LoadFound(t_name, storage_type, years, start_date, end_date, symbols, duckdb) ==
    IF storage_type = "snapshot"
    THEN Track(t_name, TABLE_REGISTRY[t_name], <<SnapshotPath(t_name)>>,
               start_date, end_date, symbols, duckdb)
    ELSE IF years = {}
    THEN Raise("DataNotFound", t_name, start_date, end_date)
    ELSE IF EmptyGlob(t_name, years)
    THEN Raise("IOError", t_name, NullDate, NullDate)
    ELSE [Track(t_name, TABLE_REGISTRY[t_name], GlobPaths(t_name, years),
                start_date, end_date, symbols, duckdb) EXCEPT !.years = years]

\* One pass of the loop that skips a table without metadata.
LoadTable_skip_absent(t_name, start_date, end_date, symbols, duckdb) ==
    IF t_name \notin DOMAIN get_storage_metadata
    THEN Ok(<<>>, <<>>)
    ELSE LoadFound(t_name, get_storage_metadata[t_name].storage_type,
                   YearsInRange(t_name, start_date, end_date),
                   start_date, end_date, symbols, duckdb)

\* One pass of the loop over table_names (lines 88-124).
LoadTable(t_name, start_date, end_date, symbols, duckdb) ==
    IF t_name \notin DOMAIN get_storage_metadata
    THEN Raise("DataNotFound", t_name, NullDate, NullDate)
    ELSE LoadFound(t_name, get_storage_metadata[t_name].storage_type,
                   YearsInRange(t_name, start_date, end_date),
                   start_date, end_date, symbols, duckdb)

\* all_tables_data.update(results)
Update(all_tables_data, one) ==
    [all_tables_data EXCEPT !.tables = one.tables @@ @, !.raw = one.raw @@ @,
                            !.years = one.years \cup @]

\* DataManager.load_market_data's loop: the first table that raises ends the
\* call.
RECURSIVE LoadTables(_, _, _, _, _, _)
AfterTable(one, table_names, start_date, end_date, symbols, duckdb, all_tables_data) ==
    IF one.status # "ok" THEN one
    ELSE LoadTables(table_names, start_date, end_date, symbols, duckdb,
                    Update(all_tables_data, one))

LoadTables(table_names, start_date, end_date, symbols, duckdb, all_tables_data) ==
    IF table_names = <<>> THEN all_tables_data
    ELSE AfterTable(LoadTable(Head(table_names), start_date, end_date, symbols, duckdb),
                    Tail(table_names), start_date, end_date, symbols, duckdb, all_tables_data)

\* The call and what it returned or raised; it writes nothing.
load_market_data(table_names, start_date, end_date, symbols, duckdb) ==
    /\ res' = [LoadTables(table_names, start_date, end_date, symbols, duckdb, Ok(<<>>, <<>>))
                  EXCEPT !.req = Request(table_names, start_date, end_date, symbols)]
    /\ UNCHANGED <<disk, dirs>>

----------------------------------------------------------------------------
(* The batches and paths the model writes *)

PartTable == "cn_stock_em_daily_adj"
SnapTable == "cn_stock_em"
MapTable == "stock_sector_map"
Years == {2023, 2024}
Months == {1, 2}
StoreYears == {2024}

AllPaths ==
    {MonthPath(t, y, m) : t \in {PartTable, MapTable}, y \in Years, m \in Months}
        \cup {SnapshotPath(SnapTable)}

MonthCols == <<"trade_date", "stock_code">> \o EmFields
SnapCols == <<"stock_code", "stock_name">>

\* One fetched row: every value column of the row holds v.
MkRow(d, s, v) ==
    [c \in SeqToSet(MonthCols) |->
        IF c = "trade_date" THEN d ELSE IF c = "stock_code" THEN s ELSE v]

\* df[name] = val
WithCol(df, name, val) ==
    DataFrame(Append(df.columns, name),
              [i \in DOMAIN df.rows |->
                  [c \in DOMAIN df.rows[i] \cup {name} |->
                      IF c = name THEN val ELSE df.rows[i][c]]])

\* df.drop(columns=[name])
RECURSIVE SeqWithout(_, _)
SeqWithout(s, x) ==
    IF s = <<>> THEN <<>>
    ELSE IF Head(s) = x THEN SeqWithout(Tail(s), x)
    ELSE <<Head(s)>> \o SeqWithout(Tail(s), x)

WithoutCol(df, name) ==
    DataFrame(SeqWithout(df.columns, name),
              [i \in DOMAIN df.rows |->
                  [c \in DOMAIN df.rows[i] \ {name} |-> df.rows[i][c]]])

\* No load_market_data call has been made.
NoLoad == [status |-> "none"]

StoreIdle ==
    /\ disk = [p \in AllPaths |-> NoFile]
    /\ dirs = {}
    /\ last = NoCall
    /\ nw = 0
    /\ res = NoLoad

FillIdle ==
    /\ farr = Array(0, 0, <<>>)
    /\ fops = <<>>
    /\ fret = <<>>

\* No accessor has been called.
NoAccess == [op |-> "none"]

\* MarketDataManager.__init__: no task, no stop event.
MgrIdle ==
    /\ tasks = <<>>
    /\ stop_events = <<>>
    /\ run = <<>>
    /\ stops = <<>>

AccIdle == acc = [data |-> [type |-> "none"], call |-> NoAccess]

OtherIdle == AccIdle /\ MgrIdle

----------------------------------------------------------------------------
(* The storage writer under every kind of batch *)

\* The row lists of the partition batches: none, one row, two rows out of
\* order, one row twice, and a row whose values do not cast to DOUBLE.
StoreRows(y, m) ==
    LET a == MkRow(Date(y, m, 2), <<"A">>, "1")
        b == MkRow(Date(y, m, 2), <<"B">>, "2.0")
        x == MkRow(Date(y, m, 2), <<"A">>, "x")
    IN  {<<>>, <<a>>, <<b, a>>, <<a, a>>, <<x>>}

\* Each row list under the registry columns, with "year" added, with an
\* unregistered column added, with both, and without trade_date.
StoreMonthBatches(y, m) ==
    LET base == {DataFrame(MonthCols, rws) : rws \in StoreRows(y, m)}
    IN  base
          \cup {WithCol(df, "year", y) : df \in base}
          \cup {WithCol(df, "pe_ratio", "1.0") : df \in base}
          \cup {WithCol(WithCol(df, "year", y), "pe_ratio", "1.0") : df \in base}
          \cup {WithoutCol(df, "trade_date") : df \in base}

SnapRow(s, n) == [stock_code |-> s, stock_name |-> n]

SnapRows ==
    {<<>>, <<SnapRow(<<"A">>, <<"Bank">>)>>,
     <<SnapRow(<<"B">>, <<"Steel">>), SnapRow(<<"A">>, <<"Bank">>)>>,
     <<SnapRow(<<"A">>, <<"Bank">>), SnapRow(<<"A">>, <<"Bank">>)>>,
     <<SnapRow(<<"A">>, <<"Bank">>), SnapRow(<<"A">>, <<"Steel">>)>>}

StoreSnapBatches ==
    LET base == {DataFrame(SnapCols, rws) : rws \in SnapRows}
    IN  base
          \cup {WithCol(df, "year", 2024) : df \in base}
          \cup {WithCol(df, "pe_ratio", "1.0") : df \in base}

StoreInit == FillIdle /\ StoreIdle /\ OtherIdle

StoreSaveMonth ==
    /\ nw < MaxWrites
    /\ nw' = nw + 1
    /\ \E y \in StoreYears, m \in Months, fsok \in BOOLEAN :
          \E df \in StoreMonthBatches(y, m) :
              /\ fsok \/ MonthCopyWrites(df)
              /\ save_month(df, PartTable, y, m, fsok)
    /\ UNCHANGED <<farr, fops, fret, res, acc, mgr>>

StoreSaveSnapshot ==
    /\ nw < MaxWrites
    /\ nw' = nw + 1
    /\ \E fsok \in BOOLEAN :
          \E df \in StoreSnapBatches :
              /\ fsok \/ SnapshotCopyWrites(df)
              /\ save_snapshot(df, SnapTable, fsok)
    /\ UNCHANGED <<farr, fops, fret, res, acc, mgr>>

StoreNext == StoreSaveMonth \/ StoreSaveSnapshot

SpecStore == StoreInit /\ [][StoreNext]_vars

----------------------------------------------------------------------------
(* Claims about the storage writer, checked under SpecStore *)

IsWrite == last.op \in {"save_month", "save_snapshot"}

\* The rows of the batch as the writer casts them (a snapshot is deduplicated).
BatchRows(call) ==
    IF call.op = "save_snapshot" THEN CastRows(drop_duplicates(call.df))
    ELSE CastRows(call.df)

\* f holds the whole batch of the call and nothing else.
HoldsBatch(f, call) ==
    /\ f.exists
    /\ Len(f.rows) = Len(BatchRows(call))
    /\ \A r \in SeqToSet(f.rows) \cup SeqToSet(BatchRows(call)) :
          Cardinality({i \in DOMAIN f.rows : f.rows[i] = r})
              = Cardinality({i \in DOMAIN BatchRows(call) : BatchRows(call)[i] = r})

\* C1: a write refused for a column that is not in DATA_SCHEMA leaves the
\* target path as it was: no file if there was none, the old file otherwise.
C1_SchemaRefusalKeepsFile ==
    (IsWrite /\ last.status = "KeyError") => disk[last.path] = last.prev

\* C1 witness: save_month was refused over a path that already held a file.
C1_Witness ==
    /\ last.op = "save_month"
    /\ last.status = "KeyError"
    /\ last.prev.exists
    /\ disk[last.path] = last.prev

Unregistered(cols) == {k \in DOMAIN cols : cols[k] \notin DOMAIN DATA_SCHEMA}
UnregisteredNotYear(cols) == {k \in Unregistered(cols) : cols[k] # "year"}

C3_AtomicReplacement ==
    (IsWrite /\ last.prev.exists /\ last.status \in {"ok", "WriteFailed"})
    => (disk[last.path] = last.prev \/ HoldsBatch(disk[last.path], last))

----------------------------------------------------------------------------
(* The fill processors called on every array of a bounded shape *)

FillVals == {NaN, "1.0", "2.0", PosInf}

Shapes == {s \in (0 .. MaxCells) \X (0 .. MaxCells) : s[1] * s[2] <= MaxCells}

Arrays ==
    UNION {{Array(s[1], s[2], f) :
               f \in [(0 .. (s[1] - 1)) \X (0 .. (s[2] - 1)) -> FillVals]} :
           s \in Shapes}

\* The array the next call is given: the caller's, or the last one returned.
FillCur == IF fret = <<>> THEN farr ELSE fret[Len(fret)]

FillInit ==
    /\ farr \in Arrays
    /\ fops = <<>>
    /\ fret = <<>>
    /\ StoreIdle
    /\ OtherIdle

CallFfill ==
    /\ Len(fops) < MaxApply
    /\ fops' = Append(fops, "ffill_2d")
    /\ fret' = Append(fret, ffill_2d(FillCur))
    /\ UNCHANGED <<farr, disk, dirs, last, nw, res, acc, mgr>>

CallZeroFill ==
    /\ Len(fops) < MaxApply
    /\ fops' = Append(fops, "zero_fill")
    /\ fret' = Append(fret, zero_fill(FillCur))
    /\ UNCHANGED <<farr, disk, dirs, last, nw, res, acc, mgr>>

FillNext == CallFfill \/ CallZeroFill

SpecFill == FillInit /\ [][FillNext]_vars

----------------------------------------------------------------------------
(* Claims about the fill processors, checked under SpecFill *)

\* The array call k was given.
FillArg(k) == IF k = 1 THEN farr ELSE fret[k - 1]

\* The rows at or above i of column c that hold a value.
Observed(arr, i, c) == {j \in 0 .. i : ~isnan(arr.cells[<<j, c>>])}

\* The closed form of forward fill, cell (i, c).
ClosedFormFfill(arr, i, c) ==
    IF Observed(arr, i, c) = {} THEN NaN
    ELSE arr.cells[<<MaxOf(Observed(arr, i, c)), c>>]

\* C6: ffill_2d returns for every array, keeps its shape, and every cell
\* (i, c) holds the value of the last row at or above i that is not missing in
\* column c, or stays missing when there is none.
C6_FfillClosedForm ==
    /\ Len(fret) = Len(fops)
    /\ \A k \in DOMAIN fops :
          fops[k] = "ffill_2d" =>
              /\ fret[k].nrows = FillArg(k).nrows
              /\ fret[k].ncols = FillArg(k).ncols
              /\ DOMAIN fret[k].cells = Rows(FillArg(k)) \X Cols(FillArg(k))
              /\ \A p \in Rows(FillArg(k)) \X Cols(FillArg(k)) :
                    fret[k].cells[p] = ClosedFormFfill(FillArg(k), p[1], p[2])

\* C6 witness: ffill_2d was given a column [missing, v, missing, ..] beside an
\* all-missing column and filled the gap under v.
C6_Witness ==
    /\ fops = <<"ffill_2d">>
    /\ farr.nrows >= 2 /\ farr.ncols = 2
    /\ \A i \in Rows(farr) : isnan(farr.cells[<<i, 0>>])
    /\ ~isnan(farr.cells[<<0, 1>>]) /\ isnan(farr.cells[<<1, 1>>])
    /\ fret[1].cells[<<1, 1>>] = farr.cells[<<0, 1>>]
    /\ \A i \in Rows(farr) : isnan(fret[1].cells[<<i, 0>>])

\* C7: applying ffill_2d to its own result, or zero_fill to its own result,
\* changes no cell.
C7_FillIdempotent ==
    \A k \in DOMAIN fops :
        (k > 1 /\ fops[k] = fops[k - 1]) => fret[k] = fret[k - 1]

\* C7 witness: ffill_2d was applied twice to an array that the first
\* application changed.
C7_Witness ==
    /\ fops = <<"ffill_2d", "ffill_2d">>
    /\ fret[1] # farr
    /\ fret[2] = fret[1]

\* C8 as stated: zero_fill turns the missing cells into 0 and leaves every
\* other cell, infinities included, as it was.
C8_ZeroFillOnlyMissing ==
    \A k \in DOMAIN fops :
        fops[k] = "zero_fill" =>
            \A p \in Rows(FillArg(k)) \X Cols(FillArg(k)) :
                fret[k].cells[p] =
                    IF isnan(FillArg(k).cells[p]) THEN Zero ELSE FillArg(k).cells[p]

----------------------------------------------------------------------------
(* Writes to a matrix table and loads of it.  Calls are serial: the container
   a load returned is handed to its caller before the next call starts. *)

SpecKeys == {<<2023, 2>>, <<2024, 1>>, <<2024, 2>>}

\* The one trading day of the month the model writes rows for.
DayOf(y, m) == Date(y, m, 2)

\* The batches of a month: a row for "A", a row for "A_change", both (out of
\* order), none, or a row whose values do not cast to DOUBLE; for one of the
\* months also both and a second row for "A" on the same day.  No two rows
\* hold the same value.
MonthBatches(y, m) ==
    LET a == MkRow(DayOf(y, m), <<"A">>, IF m = 1 THEN "1" ELSE "2.0")
        c == MkRow(DayOf(y, m), <<"A", "change">>, IF m = 1 THEN "2.0" ELSE "1")
        b == MkRow(DayOf(y, m), <<"A">>, "3.0")
        x == MkRow(DayOf(y, m), <<"A">>, "x")
    IN  {DataFrame(MonthCols, rws) :
            rws \in {<<>>, <<a>>, <<c>>, <<c, a>>, <<x>>}
                       \cup (IF <<y, m>> = <<2023, 2>> THEN {<<b, c, a>>} ELSE {})}

\* [start_date, end_date]: the day of one month, or every year of the model.
Ranges ==
    {<<DayOf(k[1], k[2]), DayOf(k[1], k[2])>> : k \in SpecKeys}
        \cup {<<Date(2023, 1, 1), Date(2024, 12, 31)>>}

\* symbols: None, or a list.
SymbolLists == {<<>>, << <<"A">> >>, << <<"A">>, <<"A", "change">> >>}

\* What the engine may do with the statement for this request: the IN-list
\* sub-select exists only when no symbols are given.
DuckDBs(symbols) ==
    [dup : {"first", "last", "BinderError"},
     subquery : IF symbols = <<>> THEN {"distinct", "ParserError"} ELSE {"distinct"}]

\* A registered table the model never writes, and a name that is not in
\* TABLE_REGISTRY.
RawTable == "cn_stock_em_daily_raw"
NoTable == "cn_stock_em_weekly"

\* table_names of more than the one written table
TableLists ==
    {<<NoTable>>, <<RawTable>>, <<PartTable, NoTable>>, <<NoTable, PartTable>>,
     <<PartTable, RawTable>>}

\* The calls of load_market_data the model makes.
Requests ==
    {Request(<<PartTable>>, r[1], r[2], symbols) : r \in Ranges, symbols \in SymbolLists}
        \cup {Request(tn, r[1], r[2], << <<"A">> >>) : tn \in TableLists, r \in Ranges}

Init == FillIdle /\ StoreIdle /\ OtherIdle

SaveMonth ==
    /\ res = NoLoad
    /\ nw < MaxWrites
    /\ nw' = nw + 1
    /\ \E k \in SpecKeys : \E df \in MonthBatches(k[1], k[2]) :
          save_month(df, PartTable, k[1], k[2], TRUE)
    /\ UNCHANGED <<farr, fops, fret, res, acc, mgr>>

Load ==
    /\ res = NoLoad
    /\ \E q \in Requests : \E duckdb \in DuckDBs(q.symbols) :
          load_market_data(q.table_names, q.start_date, q.end_date, q.symbols, duckdb)
    /\ UNCHANGED <<farr, fops, fret, last, nw, acc, mgr>>

\* query_market_data returns container.to_dict() and drops the container.
Return ==
    /\ res # NoLoad
    /\ res' = NoLoad
    /\ UNCHANGED <<farr, fops, fret, disk, dirs, last, nw, acc, mgr>>

Next == SaveMonth \/ Load \/ Return

Spec == Init /\ [][Next]_vars

----------------------------------------------------------------------------
(* Writes to the mapping tables, the snapshot one and the partitioned one,
   and loads of them *)

MapBatches == {DataFrame(SnapCols, rws) : rws \in SnapRows}

SectorCols == <<"trade_date", "stock_code", "sector_name">>

SectorRow(d, s, n) == [trade_date |-> d, stock_code |-> s, sector_name |-> n]

MapKeys == {<<2023, 2>>, <<2024, 1>>}

\* The batches of a month of stock_sector_map: one sector for "A", or two.
MapMonthBatches(y, m) ==
    LET b == SectorRow(DayOf(y, m), <<"A">>, <<"Bank">>)
        s == SectorRow(DayOf(y, m), <<"A">>, <<"Steel">>)
    IN  {DataFrame(SectorCols, rws) : rws \in {<<b>>, <<b, s>>}}

MapSaveSnapshot ==
    /\ res = NoLoad
    /\ nw < MaxWrites
    /\ nw' = nw + 1
    /\ \E df \in MapBatches : save_snapshot(df, SnapTable, TRUE)
    /\ UNCHANGED <<farr, fops, fret, res, acc, mgr>>

MapSaveMonth ==
    /\ res = NoLoad
    /\ nw < MaxWrites
    /\ nw' = nw + 1
    /\ \E k \in MapKeys : \E df \in MapMonthBatches(k[1], k[2]) :
          save_month(df, MapTable, k[1], k[2], TRUE)
    /\ UNCHANGED <<farr, fops, fret, res, acc, mgr>>

MapLoad ==
    /\ res = NoLoad
    /\ \E t \in {SnapTable, MapTable}, r \in Ranges, symbols \in {<<>>, << <<"A">> >>} :
          \E duckdb \in DuckDBs(symbols) :
              load_market_data(<<t>>, r[1], r[2], symbols, duckdb)
    /\ UNCHANGED <<farr, fops, fret, last, nw, acc, mgr>>

MapNext == MapSaveSnapshot \/ MapSaveMonth \/ MapLoad \/ Return

SpecMap == Init /\ [][MapNext]_vars

----------------------------------------------------------------------------
(* Claims about the matrix track, checked under Spec *)

Loaded == res.status # "none"

\* The value the files of the scanned years hold for field f at (d, s);
\* missing when they hold no such row.
Stored(t, years, d, s, f) ==
    LET R == UNION {{disk[p].rows[i] : i \in {j \in DOMAIN disk[p].rows :
                                                  /\ disk[p].rows[j].trade_date = d
                                                  /\ disk[p].rows[j][TABLE_REGISTRY[t].id_col] = s}} :
                       p \in {q \in DOMAIN disk : Len(q) = 3 /\ q[1] = t /\ q[2] \in years}}
    IN  IF R = {} THEN NaN ELSE (CHOOSE r \in R : TRUE)[f]

BatchDates(df) == {df.rows[i].trade_date : i \in DOMAIN df.rows}
BatchIds(df) == {df.rows[i].stock_code : i \in DOMAIN df.rows}

\* The value the batch holds for field f at (d, s), as DOUBLE.
BatchValue(df, d, s, f) ==
    LET I == {i \in DOMAIN df.rows : df.rows[i].trade_date = d /\ df.rows[i].stock_code = s}
    IN  IF I = {} THEN NaN ELSE Cast(f, df.rows[CHOOSE i \in I : TRUE][f])

\* The last call wrote a batch and the load that followed asked for the
\* batch's date range and identifiers.
RoundTrip ==
    /\ last.op = "save_month" /\ last.status = "ok"
    /\ Loaded
    /\ res.req.table_names = <<PartTable>>
    /\ res.req.start_date = MinOf(BatchDates(last.df))
    /\ res.req.end_date = MaxOf(BatchDates(last.df))
    /\ SeqToSet(res.req.symbols) = BatchIds(last.df)

\* C4 as stated: a batch with distinct (date, identifier) pairs written by
\* save_month and loaded back over its date range comes back value for value:
\* every coordinate of the batch is in every field's matrix with the written
\* value, and every other cell of the matrix is missing before the fill.
C4_RoundTrip ==
    RoundTrip
    => /\ res.status = "ok"
       /\ \A f \in SeqToSet(EmFields) :
             /\ <<PartTable, f>> \in DOMAIN res.raw
             /\ LET td == res.tables[<<PartTable, f>>]
                    mat == res.raw[<<PartTable, f>>]
                IN  /\ BatchDates(last.df) \subseteq SeqToSet(td.timeline)
                    /\ BatchIds(last.df) \subseteq SeqToSet(td.symbols)
                    /\ \A i \in DOMAIN td.timeline : \A j \in DOMAIN td.symbols :
                          mat.cells[<<i - 1, j - 1>>]
                              = BatchValue(last.df, td.timeline[i], td.symbols[j], f)

\* C5 as stated: for every list of requested identifiers, those with "_" in
\* them included, the matrix track returns, and the symbol axis is the set
\* of the requested identifiers, and before the fill each field's column of an
\* identifier holds that identifier's stored values and nothing else.
C5_SuffixMatching ==
    (Loaded /\ res.status # "DataNotFound" /\ res.req.table_names = <<PartTable>>
        /\ res.req.symbols # <<>>)
    => /\ res.status = "ok"
       /\ \A n \in DOMAIN res.tables :
             /\ SeqToSet(res.tables[n].symbols) = SeqToSet(res.req.symbols)
             /\ \A i \in DOMAIN res.tables[n].timeline : \A j \in DOMAIN res.tables[n].symbols :
                   res.raw[n].cells[<<i - 1, j - 1>>]
                       = Stored(n[1], res.years, res.tables[n].timeline[i],
                                res.tables[n].symbols[j], n[2])

\* C9: in every matrix load, a field of zerofill_cols has 0 wherever the
\* matrix was missing before the fill, and a field of ffill_cols has in every
\* cell the last value at or before that date of the same identifier, missing
\* only where the identifier has no value yet; the fill keeps the shape.
C9_FillPolicy ==
    (Loaded /\ res.status = "ok")
    => \A n \in DOMAIN res.raw :
          LET mat == res.raw[n]
              out == res.tables[n].data
              config == TABLE_REGISTRY[n[1]]
          IN  /\ out.nrows = mat.nrows /\ out.ncols = mat.ncols
              /\ InSeq(n[2], config.zerofill_cols)
                    => \A i \in Rows(mat), c \in Cols(mat) :
                          isnan(mat.cells[<<i, c>>]) => out.cells[<<i, c>>] = Zero
              /\ InSeq(n[2], config.ffill_cols)
                    => \A i \in Rows(mat), c \in Cols(mat) :
                          out.cells[<<i, c>>] = ClosedFormFfill(mat, i, c)

\* C9 witness: a load of two dates in which an identifier has no row on the
\* last date (its volume reads 0 and its close the close of the date before)
\* and another has no row on the first date (its close stays missing there).
C9_Witness ==
    /\ Loaded /\ res.status = "ok"
    /\ <<PartTable, "close">> \in DOMAIN res.raw
    /\ LET close == res.tables[<<PartTable, "close">>].data
           volume == res.tables[<<PartTable, "volume">>].data
           raw == res.raw[<<PartTable, "close">>]
       IN  /\ raw.nrows = 2 /\ raw.ncols = 2
           /\ \E c \in Cols(raw) :
                 /\ isnan(raw.cells[<<1, c>>]) /\ ~isnan(raw.cells[<<0, c>>])
                 /\ close.cells[<<1, c>>] = raw.cells[<<0, c>>]
                 /\ volume.cells[<<1, c>>] = Zero
           /\ \E c \in Cols(raw) :
                 /\ isnan(raw.cells[<<0, c>>]) /\ ~isnan(raw.cells[<<1, c>>])
                 /\ isnan(close.cells[<<0, c>>])

----------------------------------------------------------------------------
(* Claims about the mapping track, checked under SpecMap *)

\* The (identifier, value) pairs the snapshot file holds for the request.
MapRows(t, symbols) ==
    SnapshotQuery(SnapshotPath(t), <<TABLE_REGISTRY[t].id_col, TABLE_REGISTRY[t].val_col>>,
                  TABLE_REGISTRY[t].id_col, symbols)

RECURSIVE ValuesOf(_, _, _, _)
ValuesOf(rws, id_col, val_col, k) ==
    IF rws = <<>> THEN <<>>
    ELSE IF Head(rws)[id_col] = k
         THEN <<Head(rws)[val_col]>> \o ValuesOf(Tail(rws), id_col, val_col, k)
         ELSE ValuesOf(Tail(rws), id_col, val_col, k)

\* identifier -> list of values when an identifier repeats, identifier ->
\* value otherwise.
Mapping(rws, id_col, val_col) ==
    LET ids == {rws[i][id_col] : i \in DOMAIN rws}
    IN  IF Cardinality(ids) < Len(rws)
        THEN [type |-> "dict", items |-> [k \in ids |-> ValuesOf(rws, id_col, val_col, k)]]
        ELSE [type |-> "dict", items |-> [k \in ids |-> ValuesOf(rws, id_col, val_col, k)[1]]]

\* C10 as stated: a mapping-track load of a table that has data returns a
\* TableData whose data maps every identifier to the list of its values when
\* some identifier repeats among the rows, and to its single value when none
\* does.
C10_CardinalityAutoDetect ==
    (Loaded /\ res.req.table_names = <<SnapTable>> /\ SnapTable \in DOMAIN get_storage_metadata)
    => /\ res.status = "ok"
       /\ res.tables[<<SnapTable>>].data
             = Mapping(MapRows(SnapTable, res.req.symbols),
                       TABLE_REGISTRY[SnapTable].id_col, TABLE_REGISTRY[SnapTable].val_col)

----------------------------------------------------------------------------
(* Claims about the paths load_market_data reads *)

\* The engine refused the statement for a reason that lies in the request
\* (a sub-select as IN list, two pivot columns of one name).
EngineRefused == res.status \in {"ParserError", "BinderError"}

\* The years of the table that have a file on disk within the requested years.
YearsOnDisk(t, start_date, end_date) ==
    {p[2] : p \in {q \in DOMAIN disk : /\ Len(q) = 3 /\ q[1] = t /\ disk[q].exists
                                        /\ YearOf(start_date) <= q[2]
                                        /\ q[2] <= YearOf(end_date)}}

\* A load of the one table t was made.
LoadedOne(t) == Loaded /\ res.req.table_names = <<t>>

\* C11 as stated: a load of a partitioned table that has data within the
\* requested years reads exactly the year partitions on disk whose year lies
\* within [start.year, end.year].
C11_PartitionScoping ==
    \A t \in {PartTable, MapTable} :
        (LoadedOne(t) /\ t \in DOMAIN get_storage_metadata /\ ~EngineRefused
            /\ YearsOnDisk(t, res.req.start_date, res.req.end_date) # {})
        => /\ res.status = "ok"
           /\ res.years = YearsOnDisk(t, res.req.start_date, res.req.end_date)

\* The year=Y directories of the table whose year lies within the requested
\* years.
YearDirs(t, start_date, end_date) ==
    {y \in Years : <<t, y>> \in dirs /\ YearOf(start_date) <= y /\ y <= YearOf(end_date)}

----------------------------------------------------------------------------
(* Claims about requested tables that have no data *)

\* The positions of table_names whose table has no metadata: it is not in
\* TABLE_REGISTRY, or it has no data on disk.
Absent(table_names) ==
    {i \in DOMAIN table_names : table_names[i] \notin DOMAIN get_storage_metadata}

\* Every table ahead of position k loads, whatever the engine does.
LoadsBefore(req, k) ==
    \A j \in 1 .. (k - 1) : \A d \in DuckDBs(req.symbols) :
        LoadTable(req.table_names[j], req.start_date, req.end_date, req.symbols, d).status = "ok"

RowsInRange(t, start_date, end_date) ==
    UNION {{disk[p].rows[i] : i \in {j \in DOMAIN disk[p].rows :
                                         /\ start_date <= disk[p].rows[j].trade_date
                                         /\ disk[p].rows[j].trade_date <= end_date}} :
              p \in {q \in DOMAIN disk : Len(q) = 3 /\ q[1] = t /\ disk[q].exists}}

\* C14 as stated: a load of a matrix table that has a year partition within
\* the requested years but no row dated within [start, end] raises no error
\* and returns a container without an entry for the table.
C14_EmptyRange ==
    (/\ LoadedOne(PartTable)
     /\ PartTable \in DOMAIN get_storage_metadata
     /\ YearDirs(PartTable, res.req.start_date, res.req.end_date) # {}
     /\ RowsInRange(PartTable, res.req.start_date, res.req.end_date) = {}
     /\ ~EngineRefused)
    => /\ res.status = "ok"
       /\ res.tables = <<>>

----------------------------------------------------------------------------
(* Claims about get_storage_metadata, on every data directory the writer can
   leave behind *)

\* The registered tables whose path is on disk: the snapshot file, or the
\* table's directory.
OnDisk ==
    {t \in DOMAIN TABLE_REGISTRY :
        IF TABLE_REGISTRY[t].storage_type = "snapshot"
        THEN <<t>> \in DOMAIN disk /\ disk[<<t>>].exists
        ELSE <<t>> \in dirs}

\* C15: get_storage_metadata returns for every state of the data directory;
\* its map holds registered tables only, none whose path is not on disk, and
\* every entry has start_date, end_date, row_count, path and storage_type.
C15_MetadataTotal ==
    /\ DOMAIN get_storage_metadata \subseteq OnDisk
    /\ \A t \in DOMAIN get_storage_metadata :
          /\ DOMAIN get_storage_metadata[t]
                = {"start_date", "end_date", "row_count", "path", "storage_type"}
          /\ get_storage_metadata[t].storage_type = TABLE_REGISTRY[t].storage_type

\* C15 witness: the directory of a partitioned table is on disk without a
\* file, so that the audit statement fails; the table is left out and the
\* snapshot table, whose file is there, is in the map.
C15_Witness ==
    /\ PartTable \in OnDisk
    /\ TableFiles(PartTable) = {}
    /\ PartTable \notin DOMAIN get_storage_metadata
    /\ SnapTable \in DOMAIN get_storage_metadata

\* The files of a table on disk, and their rows as (file, position) pairs.
FilesOf(t) == {p \in DOMAIN disk : p[1] = t /\ disk[p].exists}
RowsOf(t) == UNION {{<<p, i>> : i \in DOMAIN disk[p].rows} : p \in FilesOf(t)}

\* The files of the table have a trade_date column.
HasDates(t) == \A p \in FilesOf(t) : InSeq("trade_date", disk[p].columns)

DatesOf(t) == {disk[r[1]].rows[r[2]].trade_date : r \in RowsOf(t)}

\* C16: every registered table with n > 0 rows on disk has an entry with
\* row_count = n; start_date and end_date are the least and the greatest
\* trade_date of its rows when its files have that column, and null when
\* they have none.
C16_MetadataContent ==
    \A t \in DOMAIN TABLE_REGISTRY :
        Cardinality(RowsOf(t)) > 0
        => /\ t \in DOMAIN get_storage_metadata
           /\ get_storage_metadata[t].row_count = Cardinality(RowsOf(t))
           /\ IF HasDates(t)
              THEN /\ get_storage_metadata[t].start_date = MinOf(DatesOf(t))
                   /\ get_storage_metadata[t].end_date = MaxOf(DatesOf(t))
              ELSE /\ get_storage_metadata[t].start_date = NullDate
                   /\ get_storage_metadata[t].end_date = NullDate

\* C16 witness: a partitioned table with two rows and a snapshot table are on
\* disk; the first has its dates, the second has none.
C16_Witness ==
    /\ Cardinality(RowsOf(PartTable)) = 2
    /\ get_storage_metadata[PartTable].start_date = Date(2024, 1, 2)
    /\ Cardinality(RowsOf(SnapTable)) > 0
    /\ ~HasDates(SnapTable)
    /\ get_storage_metadata[SnapTable].start_date = NullDate

----------------------------------------------------------------------------
(* Claims about what a write leaves on disk, checked under SpecStore *)

\* C17: every save_month that succeeds leaves at its key (table, year, month)
\* one file, named by the year and the two-digit month, whose rows are the
\* rows of that batch and no others, and every successful write leaves the
\* file of every other path as it was; so after any sequence of successful
\* writes each key holds the batch of the last write to it.
C17_LastWriteWins ==
    [][(nw' = nw + 1 /\ last'.status = "ok")
        => /\ \A p \in DOMAIN disk \ {last'.path} : disk'[p] = disk[p]
           /\ last'.op = "save_month"
                => /\ HoldsBatch(disk'[last'.path], last')
                   /\ Len(FileName(last'.path[2], last'.path[3])) = 4
                   /\ FileName(last'.path[2], last'.path[3])[3] \in 0 .. 9
                   /\ FileName(last'.path[2], last'.path[3])[4] \in 0 .. 9
                   /\ 10 * FileName(last'.path[2], last'.path[3])[3]
                        + FileName(last'.path[2], last'.path[3])[4] = last'.path[3]]_vars

\* C17 witness: save_month succeeded over the file of an earlier write to the
\* same key, and the file holds the rows of the new batch, not the old ones.
C17_Witness ==
    /\ last.op = "save_month"
    /\ last.status = "ok"
    /\ last.prev.exists
    /\ last.prev.rows # disk[last.path].rows
    /\ HoldsBatch(disk[last.path], last)

\* C18: after a save_snapshot that succeeds, the snapshot file holds every
\* distinct row of the batch once and nothing else; no row of an earlier
\* snapshot is left.
C18_SnapshotDistinct ==
    (last.op = "save_snapshot" /\ last.status = "ok")
    => /\ disk[last.path].exists
       /\ SeqToSet(disk[last.path].rows) = SeqToSet(CastRows(last.df))
       /\ Len(disk[last.path].rows) = Cardinality(SeqToSet(CastRows(last.df)))

\* C18 witness: a batch that holds a row twice was written over an earlier
\* snapshot that had a row the batch has not; the file holds the row once and
\* the earlier row is gone.
C18_Witness ==
    /\ last.op = "save_snapshot"
    /\ last.status = "ok"
    /\ last.prev.exists
    /\ SeqToSet(last.prev.rows) \ SeqToSet(disk[last.path].rows) # {}
    /\ Len(disk[last.path].rows) < Len(last.df.rows)

\* C19: save_month or save_snapshot called with a batch of no rows raises
\* nothing and leaves every file and every directory as it was.
C19_EmptyBatchNoOp ==
    [][(nw' = nw + 1 /\ Len(last'.df.rows) = 0)
        => /\ last'.status = "skipped"
           /\ disk' = disk
           /\ dirs' = dirs]_vars

\* C19 witness: save_month was called with an empty batch for a key that has
\* a file, and the file is as it was.
C19_Witness ==
    /\ last.op = "save_month"
    /\ Len(last.df.rows) = 0
    /\ last.status = "skipped"
    /\ last.prev.exists
    /\ disk[last.path] = last.prev

----------------------------------------------------------------------------
(* Claims about loads that follow writes, checked under Spec *)

\* The value the file held before the last write for field f at (d, s).
PrevStored(d, s, f) ==
    LET R == {last.prev.rows[i] : i \in {j \in DOMAIN last.prev.rows :
                                             /\ last.prev.rows[j].trade_date = d
                                             /\ last.prev.rows[j].stock_code = s}}
    IN  IF R = {} THEN NaN ELSE (CHOOSE r \in R : TRUE)[f]

\* The values the files of the scanned years hold for field f at (d, s), one
\* for every row there; missing alone when they hold no such row.
StoredValues(t, years, d, s, f) ==
    LET V == UNION {{disk[p].rows[i][f] : i \in {j \in DOMAIN disk[p].rows :
                                                  /\ disk[p].rows[j].trade_date = d
                                                  /\ disk[p].rows[j][TABLE_REGISTRY[t].id_col] = s}} :
                       p \in {q \in DOMAIN disk : Len(q) = 3 /\ q[1] = t /\ q[2] \in years}}
    IN  IF V = {} THEN {NaN} ELSE V

\* C20: what a load returns is what the files hold when it is called: it
\* raises DataNotFound for the table exactly when the table has no row on
\* disk, and when it returns, the timeline of every matrix is the set of the
\* dates on disk within the range and every cell of the "open" matrix, before
\* the fill, is a value on disk for its date and identifier.
C20_NoCaching ==
    LoadedOne(PartTable)
    => /\ (res.status = "DataNotFound" /\ res.err.start_date = NullDate)
            <=> RowsOf(PartTable) = {}
       /\ res.status = "ok"
            => \A n \in DOMAIN res.tables :
                  /\ SeqToSet(res.tables[n].timeline)
                        = {r.trade_date : r \in RowsInRange(PartTable, res.req.start_date,
                                                            res.req.end_date)}
                  /\ n[2] = "open"
                        => \A i \in DOMAIN res.tables[n].timeline :
                              \A j \in DOMAIN res.tables[n].symbols :
                                  res.raw[n].cells[<<i - 1, j - 1>>]
                                      \in StoredValues(PartTable, res.years,
                                                       res.tables[n].timeline[i],
                                                       res.tables[n].symbols[j], "open")

\* C20 witness: a write replaced the file of a key by other rows, and the
\* load that followed returned for a date of that key a cell that is not
\* what the replaced file held.
C20_Witness ==
    /\ last.op = "save_month" /\ last.status = "ok" /\ last.prev.exists
    /\ LoadedOne(PartTable) /\ res.status = "ok"
    /\ <<PartTable, "open">> \in DOMAIN res.tables
    /\ \E i \in DOMAIN res.tables[<<PartTable, "open">>].timeline :
          \E j \in DOMAIN res.tables[<<PartTable, "open">>].symbols :
              /\ res.tables[<<PartTable, "open">>].timeline[i]
                    = DayOf(last.path[2], last.path[3])
              /\ res.raw[<<PartTable, "open">>].cells[<<i - 1, j - 1>>]
                    # PrevStored(res.tables[<<PartTable, "open">>].timeline[i],
                                 res.tables[<<PartTable, "open">>].symbols[j], "open")

----------------------------------------------------------------------------
(* Claims about the query of the mapping track, checked under SpecMap *)

\* The (identifier, value) pairs of a set of rows whose identifier is among
\* the symbols (all of them when no symbols are given).
PairsOf(t, rws, symbols) ==
    {<<r[TABLE_REGISTRY[t].id_col], r[TABLE_REGISTRY[t].val_col]>> :
        r \in {q \in rws : symbols = <<>> \/ InSeq(q[TABLE_REGISTRY[t].id_col], symbols)}}

\* C21 as stated: a mapping load of a snapshot table returns the rows of the
\* file whatever the dates, a mapping load of a partitioned table returns the
\* rows dated within [start, end] from every year in range, and in both the
\* rows are those whose identifier is among the requested symbols.
C21_SelectQueryBounds ==
    /\ (LoadedOne(SnapTable) /\ SnapTable \in DOMAIN get_storage_metadata)
          => /\ res.status = "ok"
             /\ PairsOf(SnapTable, SeqToSet(res.tables[<<SnapTable>>].data.items), <<>>)
                   = PairsOf(SnapTable, SeqToSet(disk[SnapshotPath(SnapTable)].rows),
                             res.req.symbols)
    /\ (LoadedOne(MapTable) /\ MapTable \in DOMAIN get_storage_metadata
            /\ YearDirs(MapTable, res.req.start_date, res.req.end_date) # {})
          => /\ res.status = "ok"
             /\ PairsOf(MapTable, SeqToSet(res.tables[<<MapTable>>].data.items), <<>>)
                   = PairsOf(MapTable,
                             RowsInRange(MapTable, res.req.start_date, res.req.end_date),
                             res.req.symbols)


----------------------------------------------------------------------------
(* models/market.py: the accessors of TableData *)

\* Python values: None, a string, or a list; v holds the elements, a string
\* being its own single element, and None inside a list is "<None>".
None == [kind |-> "None", v |-> <<>>]
Str(s) == [kind |-> "str", v |-> <<s>>]
List(v) == [kind |-> "list", v |-> v]

\* [r] for a value r that is no list
ListOf(r) == List(IF r.kind = "None" THEN <<"<None>">> ELSE r.v)

\* A dict, and data that is no dict (the array of a matrix entry)
Dict(items) == [type |-> "dict", items |-> items]
NdArray == [type |-> "ndarray"]

\* isinstance(self.data, dict)
IsDict(data) == data.type = "dict"

\* get_list that hands out the stored value as it is.
get_list_unwrapped(data, key) ==
    IF ~IsDict(data) THEN List(<<>>)
    ELSE IF key \in DOMAIN data.items THEN data.items[key] ELSE List(<<>>)

\* TableData.get_list(key): lines 190-198
get_list(data, key) ==
    IF ~IsDict(data) THEN List(<<>>)
    ELSE LET r == IF key \in DOMAIN data.items THEN data.items[key] ELSE List(<<>>)
         IN  IF r.kind = "list" THEN r ELSE ListOf(r)

\* get_value that ignores the default.
get_value_no_default(data, key, default) ==
    IF ~IsDict(data) THEN default
    ELSE IF key \in DOMAIN data.items THEN data.items[key] ELSE None

\* TableData.get_value(key, default): lines 182-188
get_value(data, key, default) ==
    IF ~IsDict(data) THEN default
    ELSE IF key \in DOMAIN data.items THEN data.items[key] ELSE default

----------------------------------------------------------------------------
(* The accessors called on every TableData of a bounded size *)

MaxKeys == 2

AccKeys == {"000001", "000002", "000003"}
AccValues ==
    {None, Str("Bank"), List(<<>>), List(<<"Bank">>), List(<<"Bank", "Steel">>)}

\* self.data: a dict over at most MaxKeys keys, or an array
AccData ==
    {NdArray}
        \cup UNION {{Dict(f) : f \in [K -> AccValues]} :
                       K \in {S \in SUBSET AccKeys : Cardinality(S) <= MaxKeys}}

AccInit ==
    /\ acc \in [data : AccData, call : {NoAccess}]
    /\ FillIdle /\ StoreIdle /\ MgrIdle

CallGetList ==
    /\ \E key \in AccKeys :
          acc' = [acc EXCEPT !.call = [op |-> "get_list", key |-> key, default |-> None,
                                       ret |-> get_list(acc.data, key)]]
    /\ UNCHANGED <<farr, fops, fret, disk, dirs, last, nw, res, mgr>>

CallGetValue ==
    /\ \E key \in AccKeys, default \in {None, Str("?")} :
          acc' = [acc EXCEPT !.call = [op |-> "get_value", key |-> key, default |-> default,
                                       ret |-> get_value(acc.data, key, default)]]
    /\ UNCHANGED <<farr, fops, fret, disk, dirs, last, nw, res, mgr>>

AccNext == CallGetList \/ CallGetValue

SpecAcc == AccInit /\ [][AccNext]_vars

----------------------------------------------------------------------------
(* Claims about the accessors, checked under SpecAcc *)

\* C22: on a TableData whose data is a dict, get_list returns a list in every
\* case, the empty list for an absent key, the stored list itself for a key
\* that holds a list, and the one-element list of the stored value otherwise;
\* get_value returns the stored value of a present key and the default for an
\* absent one.
C22_MappingAccessors ==
    /\ (acc.call.op = "get_list" => acc.call.ret.kind = "list")
    /\ IsDict(acc.data) =>
       /\ acc.call.op = "get_list"
            => /\ acc.call.key \notin DOMAIN acc.data.items => acc.call.ret = List(<<>>)
               /\ acc.call.key \in DOMAIN acc.data.items
                    => IF acc.data.items[acc.call.key].kind = "list"
                       THEN acc.call.ret = acc.data.items[acc.call.key]
                       ELSE /\ Len(acc.call.ret.v) = 1
                            /\ acc.call.ret.v[1]
                                 = IF acc.data.items[acc.call.key].kind = "None"
                                   THEN "<None>"
                                   ELSE acc.data.items[acc.call.key].v[1]
       /\ acc.call.op = "get_value"
            => IF acc.call.key \in DOMAIN acc.data.items
               THEN acc.call.ret = acc.data.items[acc.call.key]
               ELSE acc.call.ret = acc.call.default

\* C22 witness: get_list was asked for a key that holds a single string and
\* returned the list of that one string.
C22_Witness ==
    /\ IsDict(acc.data)
    /\ acc.call.op = "get_list"
    /\ acc.call.key \in DOMAIN acc.data.items
    /\ acc.data.items[acc.call.key] = Str("Bank")
    /\ acc.call.ret = List(<<"Bank">>)

----------------------------------------------------------------------------
(* models/market.py: the label lookup of TableData *)

\* date_to_idx.get(x) / symbol_to_idx.get(x): the dict built by enumerate
\* keeps, for a label that occurs more than once, its last position; -1
\* stands for None.
LabelIdx(labels, x) ==
    IF ~InSeq(x, labels) THEN -1
    ELSE MaxOf({i \in DOMAIN labels : labels[i] = x}) - 1

\* TableData.__getitem__((t_label, s_label)) on array data
getitem(td, t_label, s_label) ==
    IF LabelIdx(td.timeline, t_label) = -1 \/ LabelIdx(td.symbols, s_label) = -1
    THEN NaN
    ELSE td.data.cells[<<LabelIdx(td.timeline, t_label), LabelIdx(td.symbols, s_label)>>]

----------------------------------------------------------------------------
(* Claims about the result of the matrix track, checked under Spec *)

\* A load that returned tables
NonEmptyLoad == Loaded /\ res.status = "ok" /\ DOMAIN res.tables # {}

\* C23: a matrix load that returns tables returns, for every loaded table,
\* exactly the entries {table}_{field} of the fields of its registry entry;
\* the entries of a table have one timeline, strictly ascending, and one list
\* of symbols, strictly ascending; every array has |timeline| rows and
\* |symbols| columns, and the lookup by the labels at positions (i, j) gives
\* the array's cell (i, j).
C23_MatrixWellFormed ==
    NonEmptyLoad
    => \A n \in DOMAIN res.tables :
          LET td == res.tables[n]
          IN  /\ td.name = n
              /\ n[1] \in SeqToSet(res.req.table_names)
              /\ {m \in DOMAIN res.tables : m[1] = n[1]}
                    = {<<n[1], f>> : f \in SeqToSet(TABLE_REGISTRY[n[1]].fields)}
              /\ \A m \in DOMAIN res.tables :
                    m[1] = n[1] => /\ res.tables[m].timeline = td.timeline
                                   /\ res.tables[m].symbols = td.symbols
              /\ \A i, k \in DOMAIN td.timeline : i < k => td.timeline[i] < td.timeline[k]
              /\ \A j, k \in DOMAIN td.symbols :
                    j < k => StrRank(td.symbols[j]) < StrRank(td.symbols[k])
              /\ td.data.nrows = Len(td.timeline) /\ td.data.ncols = Len(td.symbols)
              /\ DOMAIN td.data.cells
                    = (0 .. (Len(td.timeline) - 1)) \X (0 .. (Len(td.symbols) - 1))
              /\ \A i \in DOMAIN td.timeline : \A j \in DOMAIN td.symbols :
                    getitem(td, td.timeline[i], td.symbols[j])
                        = td.data.cells[<<i - 1, j - 1>>]

\* C23 witness: a load returned matrices of two dates and two symbols, and the
\* lookup of the last date and the last symbol in the "open" matrix gave a
\* stored value.
C23_Witness ==
    /\ NonEmptyLoad
    /\ <<PartTable, "open">> \in DOMAIN res.tables
    /\ LET td == res.tables[<<PartTable, "open">>]
       IN  /\ Len(td.timeline) = 2 /\ Len(td.symbols) = 2
           /\ ~isnan(getitem(td, td.timeline[2], td.symbols[2]))
           /\ getitem(td, td.timeline[2], td.symbols[2]) = td.data.cells[<<1, 1>>]


\* The rows the scanned files hold for identifier s on date d: (path,
\* position) pairs.
RowsAt(t, years, d, s) ==
    {pi \in UNION {{<<p, i>> : i \in DOMAIN disk[p].rows} :
                      p \in {q \in DOMAIN disk : Len(q) = 3 /\ q[1] = t /\ q[2] \in years}} :
        /\ disk[pi[1]].rows[pi[2]].trade_date = d
        /\ disk[pi[1]].rows[pi[2]][TABLE_REGISTRY[t].id_col] = s}

\* Some date and symbol of the loaded axes have more than one row.
SameDayRows(n) ==
    {p \in DOMAIN res.raw[n].cells :
        Cardinality(RowsAt(n[1], res.years, res.tables[n].timeline[p[1] + 1],
                           res.tables[n].symbols[p[2] + 1])) > 1}

C24_NoSharedName ==
    NonEmptyLoad
    => \A n \in DOMAIN res.raw : \A p \in SameDayRows(n) :
          n[2] \notin {"amount", "change_amount"}
          => res.raw[n].cells[p]
                \in {disk[pi[1]].rows[pi[2]][n[2]] :
                        pi \in RowsAt(n[1], res.years, res.tables[n].timeline[p[1] + 1],
                                      res.tables[n].symbols[p[2] + 1])}


\* The identifiers in the files of the scanned years, and those of them with
\* a row inside the requested range.
IdsScanned(t, years) ==
    UNION {{disk[p].rows[i][TABLE_REGISTRY[t].id_col] : i \in DOMAIN disk[p].rows} :
              p \in {q \in DOMAIN disk : Len(q) = 3 /\ q[1] = t /\ q[2] \in years}}

IdsInRange(t, years, start_date, end_date) ==
    UNION {{disk[p].rows[i][TABLE_REGISTRY[t].id_col] :
                i \in {j \in DOMAIN disk[p].rows :
                          /\ start_date <= disk[p].rows[j].trade_date
                          /\ disk[p].rows[j].trade_date <= end_date}} :
              p \in {q \in DOMAIN disk : Len(q) = 3 /\ q[1] = t /\ q[2] \in years}}

\* C25: after a matrix load that returned, the symbols of every matrix are
\* the identifiers in the files of the scanned years when no symbols were
\* requested and the requested symbols otherwise, and the column of a symbol
\* that has no row inside [start, end] is missing in every row before the fill.
C25_IdentifierAxis ==
    (NonEmptyLoad /\ res.req.table_names = <<PartTable>>)
    => \A n \in DOMAIN res.raw :
          /\ SeqToSet(res.tables[n].symbols)
                = IF res.req.symbols = <<>> THEN IdsScanned(PartTable, res.years)
                  ELSE SeqToSet(res.req.symbols)
          /\ \A j \in DOMAIN res.tables[n].symbols :
                res.tables[n].symbols[j]
                    \notin IdsInRange(PartTable, res.years, res.req.start_date, res.req.end_date)
                => \A i \in DOMAIN res.tables[n].timeline :
                      isnan(res.raw[n].cells[<<i - 1, j - 1>>])

\* C25 on the fields whose column name no other (identifier, field) pair of
\* the load shares.
C25_NoSharedName ==
    (NonEmptyLoad /\ res.req.table_names = <<PartTable>>)
    => \A n \in DOMAIN res.raw :
          /\ SeqToSet(res.tables[n].symbols)
                = IF res.req.symbols = <<>> THEN IdsScanned(PartTable, res.years)
                  ELSE SeqToSet(res.req.symbols)
          /\ n[2] \notin {"amount", "change_amount"}
                => \A j \in DOMAIN res.tables[n].symbols :
                      res.tables[n].symbols[j]
                          \notin IdsInRange(PartTable, res.years, res.req.start_date,
                                            res.req.end_date)
                      => \A i \in DOMAIN res.tables[n].timeline :
                            isnan(res.raw[n].cells[<<i - 1, j - 1>>])

----------------------------------------------------------------------------
(* models/task.py and services/market_manager.py: the download tasks *)

TaskStatus == {"PENDING", "RUNNING", "COMPLETED", "FAILED", "STOPPED"}
Terminal == {"COMPLETED", "FAILED", "STOPPED"}

\* DownloadTask(task_id, status=PENDING): progress is 0.0, kept in hundredths
\* of a percent.
DownloadTask(status) == [status |-> status, progress |-> 0]

\* MarketDataManager.downloaders
Downloaders == {"em", "sina"}

\* The download_config of every entry of TABLE_REGISTRY as shipped, and the
\* registry with the entry of the partitioned table holding no download_config
\* or naming a source no downloader serves.
DOWNLOAD_CONFIG ==
    [t \in DOMAIN TABLE_REGISTRY |->
        [present |-> TRUE,
         source |-> IF t \in {"cn_stock_sina_daily_adj", "cn_stock_sina_daily_raw"}
                    THEN "sina" ELSE "em"]]

Registries ==
    {DOWNLOAD_CONFIG,
     [DOWNLOAD_CONFIG EXCEPT ![PartTable] = [present |-> FALSE, source |-> ""]],
     [DOWNLOAD_CONFIG EXCEPT ![PartTable] = [present |-> TRUE, source |-> "tushare"]]}

\* The checks of start_market_download_task that look at the table name only.
Validate_table_only(registry, table_name) ==
    IF table_name \notin DOMAIN registry THEN "ValueError" ELSE "ok"

\* start_market_download_task, lines 34-48: the checks before a task exists
Validate(registry, table_name) ==
    IF table_name \notin DOMAIN registry THEN "ValueError"
    ELSE IF ~registry[table_name].present THEN "ValueError"
    ELSE IF registry[table_name].source \notin Downloaders THEN "ValueError"
    ELSE "ok"

\* _get_date_range raises for a month string that names no month
DateRangeRaises(month_str) == month_str[2] \notin 1 .. 12

\* round(((idx + 1) / total_months) * 100, 2) with n = idx + 1, counted from
\* the months done so far.
Progress_months_before(n, total) == (((n - 1) * 10000 * 2) + total) \div (2 * total)

\* round(((idx + 1) / total_months) * 100, 2) with n = idx + 1, in hundredths
Progress(n, total) == ((n * 10000 * 2) + total) \div (2 * total)

\* What one run of a coroutine up to its next await leaves: its position,
\* the task record, and whether the finally clause ran (the stop event is
\* popped).
Awaits(r, t) == [run |-> r, task |-> t, pop |-> FALSE]
Finish(r, t, status) ==
    [run |-> [r EXCEPT !.pc = "done"], task |-> [t EXCEPT !.status = status], pop |-> TRUE]

\* _mark_stopped(task); return
mark_stopped(r, t) == Finish(r, t, "STOPPED")

\* The loops of _run_partition_download from the top of the month loop
\* (lines 152-181), from the top of the symbol loop (162-163), and from the
\* end of the symbol loop (172-177), up to the next await.  r.idx and r.i
\* count from 1.
RECURSIVE MonthLoop(_, _, _)
MonthEnd(r, t, stop) ==
    MonthLoop([r EXCEPT !.idx = @ + 1],
              [t EXCEPT !.progress = Progress(r.idx, Len(r.months))], stop)

SymbolsDone(r, t, stop) ==
    IF r.buffer # <<>> THEN Awaits([r EXCEPT !.pc = "save"], t)
    ELSE MonthEnd(r, t, stop)

SymbolLoop(r, t, stop) ==
    IF r.i > Len(r.symbols) \/ stop THEN SymbolsDone(r, t, stop)
    ELSE Awaits([r EXCEPT !.pc = "fetch"], t)

MonthLoop(r, t, stop) ==
    IF r.idx > Len(r.months) THEN Finish(r, t, "COMPLETED")
    ELSE IF stop THEN mark_stopped(r, t)
    ELSE IF DateRangeRaises(r.months[r.idx]) THEN Finish(r, t, "FAILED")
    ELSE SymbolLoop([r EXCEPT !.i = 1, !.buffer = <<>>, !.outcomes = <<>>], t, stop)

\* A fetch that raised ends the task as any other exception does.
FetchRaised_fails(r, t) == Finish(r, t, "FAILED")

\* lines 168-169: the exception of one symbol's fetch is logged
FetchRaised(r, t) == Awaits([r EXCEPT !.pc = "sleep"], t)

\* The state a coroutine step leaves in the manager.
Apply(id, o) ==
    /\ tasks' = [tasks EXCEPT ![id] = o.task]
    /\ run' = [run EXCEPT ![id] = o.run]
    /\ stop_events' = IF o.pop THEN [j \in DOMAIN stop_events \ {id} |-> stop_events[j]]
                      ELSE stop_events

----------------------------------------------------------------------------
(* Download tasks started, run by the event loop, stopped and looked up.  The
   code between two awaits of a coroutine runs as one step, and so does every
   call of an endpoint, all of them being coroutines of the one event loop. *)

MaxTasks == 1

TaskIds == 1 .. (MaxTasks + 1)

\* request.months: None, one month, two months, a string that names no month
TaskMonths == {<<>>, << <<2024, 1>> >>, << <<2024, 1>>, <<2024, 2>> >>, << <<2024, 13>> >>}

\* datetime.now().strftime("%Y%m")
CurrentMonth == <<2024, 2>>

\* request.symbols: None or a list
TaskSymbols == {<<>>, << <<"A">> >>, << <<"A">>, <<"A", "change">> >>}

\* downloader.get_all_symbols()
AllSymbols == << <<"A">>, <<"A", "change">> >>

\* The DataFrame a fetch of one symbol and month returns when it has data.
FetchedRows(symbol, month) ==
    <<MkRow(DayOf(month[1], month[2]), symbol, IF symbol = <<"A">> THEN "1.0" ELSE "2.0")>>

NoMgrCall ==
    [op |-> "none", id |-> 0, ret |-> "none", status |-> "none", table |-> "",
     registered |-> FALSE, cfg |-> [present |-> FALSE, source |-> ""]]

MgrCall(op, id, ret) == [NoMgrCall EXCEPT !.op = op, !.id = id, !.ret = ret]

TaskInit ==
    /\ FillIdle /\ StoreIdle /\ AccIdle
    /\ tasks = <<>> /\ stop_events = <<>> /\ run = <<>>
    /\ stops = [call |-> NoMgrCall, signalled |-> {}]

\* config.get("storage_type", "partition")
StorageType(table_name) == TABLE_REGISTRY[table_name].storage_type

\* The coroutine asyncio.create_task schedules (lines 69-76).  outcomes notes
\* how the fetches of the month at hand ended, one entry a symbol.
Coroutine(table_name, months, symbols) ==
    [kind |-> StorageType(table_name), table |-> table_name, months |-> months,
     symbols |-> symbols, pc |-> "created", idx |-> 0, i |-> 0, buffer |-> <<>>,
     outcomes |-> <<>>]

\* start_market_download_task(request); all says whether the listing of every
\* symbol, asked of the downloader when the request names none, raises.
start_market_download_task ==
    /\ \E registry \in Registries, table_name \in {PartTable, SnapTable, NoTable} :
          LET call == [MgrCall("start", 0, "ValueError") EXCEPT
                          !.table = table_name,
                          !.registered = table_name \in DOMAIN registry,
                          !.cfg = IF table_name \in DOMAIN registry THEN registry[table_name]
                                  ELSE NoMgrCall.cfg]
              task_id == Cardinality(DOMAIN tasks) + 1
          IN  IF Validate(registry, table_name) # "ok"
              THEN /\ stops' = [stops EXCEPT !.call = call]
                   /\ UNCHANGED <<tasks, stop_events, run>>
              ELSE \E months \in TaskMonths, symbols \in TaskSymbols, all \in {"list", "raises"} :
                   IF symbols = <<>> /\ StorageType(table_name) = "partition" /\ all = "raises"
                   THEN /\ stops' = [stops EXCEPT !.call = [call EXCEPT !.ret = "Exception"]]
                        /\ UNCHANGED <<tasks, stop_events, run>>
                   ELSE /\ Cardinality(DOMAIN tasks) < MaxTasks
                        /\ tasks' = tasks @@ (task_id :> DownloadTask("PENDING"))
                        /\ stop_events' = stop_events @@ (task_id :> FALSE)
                        /\ run' = run @@ (task_id :>
                                     Coroutine(table_name, months,
                                               IF symbols = <<>>
                                                  /\ StorageType(table_name) = "partition"
                                               THEN AllSymbols ELSE symbols))
                        /\ stops' = [stops EXCEPT !.call = [call EXCEPT !.id = task_id,
                                                                       !.ret = "task_id"]]
    /\ UNCHANGED <<farr, fops, fret, disk, dirs, last, nw, res, acc>>

\* _run_partition_download from its start to its first await (lines 139-165)
run_partition_download(task_id) ==
    /\ task_id \in DOMAIN run
    /\ run[task_id].pc = "created" /\ run[task_id].kind = "partition"
    /\ Apply(task_id,
             MonthLoop([run[task_id] EXCEPT !.idx = 1,
                                            !.months = IF @ = <<>> THEN <<CurrentMonth>> ELSE @],
                       [tasks[task_id] EXCEPT !.status = "RUNNING"],
                       stop_events[task_id]))
    /\ UNCHANGED <<farr, fops, fret, disk, dirs, last, nw, res, acc, stops>>

\* await asyncio.to_thread(handler, symbol, ...) returns a DataFrame, an empty
\* one, or raises (lines 164-169); the coroutine then sleeps.
FetchReturns(task_id) ==
    /\ task_id \in DOMAIN run
    /\ run[task_id].pc = "fetch"
    /\ \E outcome \in {"data", "empty", "raises"} :
          Apply(task_id,
                IF outcome = "raises"
                THEN FetchRaised([run[task_id] EXCEPT !.outcomes = Append(@, outcome)],
                                 tasks[task_id])
                ELSE Awaits([run[task_id] EXCEPT
                                !.pc = "sleep",
                                !.outcomes = Append(@, outcome),
                                !.buffer = IF outcome = "empty" THEN @
                                           ELSE Append(@, FetchedRows(
                                                    run[task_id].symbols[run[task_id].i],
                                                    run[task_id].months[run[task_id].idx]))],
                            tasks[task_id]))
    /\ UNCHANGED <<farr, fops, fret, disk, dirs, last, nw, res, acc, stops>>

\* await asyncio.sleep(0.1) returns: the next pass of the symbol loop
SleepReturns(task_id) ==
    /\ task_id \in DOMAIN run
    /\ run[task_id].pc = "sleep"
    /\ Apply(task_id, SymbolLoop([run[task_id] EXCEPT !.i = @ + 1], tasks[task_id],
                                 stop_events[task_id]))
    /\ UNCHANGED <<farr, fops, fret, disk, dirs, last, nw, res, acc, stops>>

\* await asyncio.to_thread(self.storage.save_month, pd.concat(monthly_buffer),
\* ...) returns or raises (lines 172-177)
SaveMonthReturns(task_id) ==
    /\ task_id \in DOMAIN run
    /\ run[task_id].pc = "save"
    /\ \E fsok \in BOOLEAN :
          save_month(DataFrame(MonthCols, Concat(run[task_id].buffer)), run[task_id].table,
                     run[task_id].months[run[task_id].idx][1],
                     run[task_id].months[run[task_id].idx][2], fsok)
    /\ Apply(task_id,
             IF last'.status = "ok"
             THEN MonthEnd(run[task_id], tasks[task_id], stop_events[task_id])
             ELSE Finish(run[task_id], tasks[task_id], "FAILED"))
    /\ UNCHANGED <<farr, fops, fret, nw, res, acc, stops>>

\* _run_snapshot_download from its start to the await of the handler
run_snapshot_download(task_id) ==
    /\ task_id \in DOMAIN run
    /\ run[task_id].pc = "created" /\ run[task_id].kind = "snapshot"
    /\ Apply(task_id, Awaits([run[task_id] EXCEPT !.pc = "handler"],
                             [tasks[task_id] EXCEPT !.status = "RUNNING"]))
    /\ UNCHANGED <<farr, fops, fret, disk, dirs, last, nw, res, acc, stops>>

\* The handler returns a DataFrame or raises; an empty one raises ValueError.
HandlerReturns(task_id) ==
    /\ task_id \in DOMAIN run
    /\ run[task_id].pc = "handler"
    /\ \/ Apply(task_id, Finish(run[task_id], tasks[task_id], "FAILED"))
       \/ \E df \in MapBatches :
             Apply(task_id,
                   IF DfEmpty(df) THEN Finish(run[task_id], tasks[task_id], "FAILED")
                   ELSE Awaits([run[task_id] EXCEPT !.pc = "save_snapshot",
                                                    !.buffer = <<df.rows>>],
                               tasks[task_id]))
    /\ UNCHANGED <<farr, fops, fret, disk, dirs, last, nw, res, acc, stops>>

\* await asyncio.to_thread(self.storage.save_snapshot, ...) returns or raises
SaveSnapshotReturns(task_id) ==
    /\ task_id \in DOMAIN run
    /\ run[task_id].pc = "save_snapshot"
    /\ \E fsok \in BOOLEAN :
          save_snapshot(DataFrame(SnapCols, run[task_id].buffer[1]), run[task_id].table, fsok)
    /\ Apply(task_id,
             IF last'.status = "ok"
             THEN Finish(run[task_id], [tasks[task_id] EXCEPT !.progress = 10000], "COMPLETED")
             ELSE Finish(run[task_id], tasks[task_id], "FAILED"))
    /\ UNCHANGED <<farr, fops, fret, nw, res, acc, stops>>

\* stop_task that answers for every task the manager holds.
stop_task_any_task(task_id) ==
    /\ stop_events' = IF task_id \in DOMAIN stop_events
                      THEN [stop_events EXCEPT ![task_id] = TRUE] ELSE stop_events
    /\ stops' = [call |-> [MgrCall("stop_task", task_id,
                                   IF task_id \in DOMAIN tasks THEN "True" ELSE "False")
                              EXCEPT !.status = IF task_id \in DOMAIN tasks
                                                THEN tasks[task_id].status ELSE "none"],
                 signalled |-> stops.signalled
                                  \cup (IF task_id \in DOMAIN tasks THEN {task_id} ELSE {})]
    /\ UNCHANGED <<farr, fops, fret, disk, dirs, last, nw, res, acc, tasks, run>>

\* stop_task(task_id); status is the status of the task at the call
stop_task(task_id) ==
    /\ stop_events' = IF task_id \in DOMAIN stop_events
                      THEN [stop_events EXCEPT ![task_id] = TRUE] ELSE stop_events
    /\ stops' = [call |-> [MgrCall("stop_task", task_id,
                                   IF task_id \in DOMAIN stop_events THEN "True" ELSE "False")
                              EXCEPT !.status = IF task_id \in DOMAIN tasks
                                                THEN tasks[task_id].status ELSE "none"],
                 signalled |-> stops.signalled
                                  \cup (IF task_id \in DOMAIN stop_events THEN {task_id} ELSE {})]
    /\ UNCHANGED <<farr, fops, fret, disk, dirs, last, nw, res, acc, tasks, run>>

\* get_task(task_id): the record, or None
get_task(task_id) ==
    /\ stops' = [stops EXCEPT !.call =
                    [MgrCall("get_task", task_id,
                             IF task_id \in DOMAIN tasks THEN "DownloadTask" ELSE "None")
                        EXCEPT !.status = IF task_id \in DOMAIN tasks
                                          THEN tasks[task_id].status ELSE "none"]]
    /\ UNCHANGED <<farr, fops, fret, disk, dirs, last, nw, res, acc, tasks, stop_events, run>>

\* The steps of the coroutine of one task
Step(task_id) ==
    \/ run_partition_download(task_id)
    \/ FetchReturns(task_id)
    \/ SleepReturns(task_id)
    \/ SaveMonthReturns(task_id)
    \/ run_snapshot_download(task_id)
    \/ HandlerReturns(task_id)
    \/ SaveSnapshotReturns(task_id)

TaskNext ==
    \/ start_market_download_task
    \/ \E task_id \in TaskIds : Step(task_id)
    \/ \E task_id \in TaskIds : stop_task(task_id)
    \/ \E task_id \in TaskIds : get_task(task_id)

SpecTask == TaskInit /\ [][TaskNext]_vars

\* The event loop runs every coroutine that can go on, and every thread and
\* timer a coroutine awaits returns.
SpecTaskFair == SpecTask /\ \A task_id \in TaskIds : WF_vars(Step(task_id))

----------------------------------------------------------------------------
(* Claims about the download tasks, checked under SpecTask and SpecTaskFair *)

\* The task has reached COMPLETED, FAILED or STOPPED.
Finished(task_id) == task_id \in DOMAIN tasks /\ tasks[task_id].status \in Terminal

\* C26: a task enters the manager in PENDING with its coroutine not yet
\* started; the first step of its coroutine takes it out of PENDING (to
\* RUNNING, or through RUNNING to the status the step ends in); a status
\* changes only from PENDING or RUNNING, never from COMPLETED, FAILED or
\* STOPPED; a partition task in COMPLETED has progress 100; and every task
\* reaches COMPLETED, FAILED or STOPPED.
C26_TaskLifecycle ==
    /\ [](\A task_id \in DOMAIN tasks :
             /\ tasks[task_id].status \in TaskStatus
             /\ tasks[task_id].status = "PENDING" <=> run[task_id].pc = "created"
             /\ (run[task_id].kind = "partition" /\ tasks[task_id].status = "COMPLETED")
                   => tasks[task_id].progress = 10000)
    /\ [][\A task_id \in DOMAIN tasks' :
             /\ task_id \notin DOMAIN tasks => tasks'[task_id].status = "PENDING"
             /\ task_id \in DOMAIN tasks
                   => \/ tasks'[task_id].status = tasks[task_id].status
                      \/ /\ tasks[task_id].status = "PENDING"
                         /\ tasks'[task_id].status \in {"RUNNING"} \cup Terminal
                      \/ /\ tasks[task_id].status = "RUNNING"
                         /\ tasks'[task_id].status \in Terminal]_vars
    /\ \A task_id \in TaskIds : (task_id \in DOMAIN tasks) ~> Finished(task_id)

\* C26 witness: a partition task over two months has gone through both and is
\* COMPLETED with progress 100.
C26_Witness ==
    \E task_id \in DOMAIN tasks :
        /\ run[task_id].kind = "partition" /\ Len(run[task_id].months) = 2
        /\ tasks[task_id].status = "COMPLETED" /\ tasks[task_id].progress = 10000
        /\ disk[MonthPath(PartTable, 2024, 2)].exists


\* C27: a partition task for which stop_task returned True is, once it has
\* ended, STOPPED, and is at no time COMPLETED.
C27_StopTakesEffect ==
    \A task_id \in stops.signalled :
        (run[task_id].kind = "partition" /\ Finished(task_id))
        => tasks[task_id].status = "STOPPED"

\* C27, the case that fails: the signal came after the last pass of the month
\* loop had begun, and the task ended COMPLETED.
C27_CompletedAfterStop ==
    \E task_id \in stops.signalled :
        /\ run[task_id].kind = "partition"
        /\ tasks[task_id].status = "COMPLETED"


\* C28: stop_task answers True exactly for a task that is PENDING or RUNNING
\* at the call, and False for an id the manager has no task for and for a
\* task that has ended; a stop event is held exactly for the tasks that have
\* not ended; and get_task returns the record of every task started, ended or
\* not, no task record being ever removed.
C28_StopTaskAnswer ==
    /\ stops.call.op = "stop_task"
          => (stops.call.ret = "True" <=> stops.call.status \in {"PENDING", "RUNNING"})
    /\ \A task_id \in DOMAIN run : task_id \in DOMAIN tasks
    /\ \A task_id \in TaskIds :
          task_id \in DOMAIN stop_events <=> (task_id \in DOMAIN tasks /\ ~Finished(task_id))
    /\ stops.call.op = "get_task"
          => (stops.call.ret = "DownloadTask" <=> stops.call.id \in DOMAIN run)

\* C28 witness: stop_task was called for a task that had ended and answered
\* False, the task's record still being held.
C28_Witness ==
    /\ stops.call.op = "stop_task" /\ stops.call.ret = "False"
    /\ stops.call.status \in Terminal
    /\ stops.call.id \in DOMAIN tasks
    /\ stops.call.id \notin DOMAIN stop_events


\* The request of the last call names no registered table, or a table whose
\* entry has no download_config, or one whose source has no downloader.
Rejected(call) ==
    \/ ~call.registered
    \/ ~call.cfg.present
    \/ call.cfg.source \notin Downloaders

\* C29: a call of start_market_download_task whose table is not registered,
\* or has no download_config, or names a source without a downloader, raises
\* ValueError and leaves the tasks, the stop events and the coroutines as they
\* were.
C29_StartRejects ==
    [][(stops'.call # stops.call /\ stops'.call.op = "start" /\ Rejected(stops'.call))
          => /\ stops'.call.ret = "ValueError"
             /\ UNCHANGED <<tasks, stop_events, run, disk>>]_vars

\* C29 witness: a request for a table whose source has no downloader was
\* answered by ValueError while the manager held a task.
C29_Witness ==
    /\ stops.call.op = "start" /\ stops.call.ret = "ValueError"
    /\ stops.call.registered /\ stops.call.cfg.present
    /\ stops.call.cfg.source \notin Downloaders
    /\ DOMAIN tasks = {1} /\ DOMAIN run = {1}


\* The rows a month's file holds when the buffer of the coroutine r, built
\* from the fetches noted in r.outcomes, has been saved.
ReturnedRows(r) ==
    {CastRow(MonthCols, FetchedRows(r.symbols[k], r.months[r.idx])[1]) :
        k \in {j \in DOMAIN r.outcomes : r.outcomes[j] = "data"}}

\* C30: in a partition download, the return of a fetch, a raise included,
\* leaves the task RUNNING and the coroutine at its sleep, and the return of
\* the sleep starts the fetch of the next symbol unless the stop event is set;
\* a month's save that succeeds leaves in the month's file exactly the rows
\* of the symbols whose fetch returned data; and the save is awaited only
\* with a row in the buffer, the disk changing in no other step of a task.
C30_FetchFailureIsolated ==
    /\ [](\A task_id \in DOMAIN run :
             run[task_id].pc = "save" => \E k \in DOMAIN run[task_id].outcomes :
                                            run[task_id].outcomes[k] = "data")
    /\ [][\A task_id \in DOMAIN run :
             /\ (run[task_id].pc = "fetch" /\ run'[task_id] # run[task_id])
                   => /\ run'[task_id].pc = "sleep"
                      /\ tasks'[task_id].status = "RUNNING"
             /\ (run[task_id].pc = "sleep" /\ run'[task_id] # run[task_id]
                   /\ run[task_id].i < Len(run[task_id].symbols) /\ ~stop_events[task_id])
                   => /\ run'[task_id].pc = "fetch"
                      /\ run'[task_id].i = run[task_id].i + 1
                      /\ run'[task_id].idx = run[task_id].idx
             /\ (run[task_id].pc = "save" /\ run'[task_id] # run[task_id]
                   /\ last'.status = "ok")
                   => LET path == MonthPath(run[task_id].table,
                                            run[task_id].months[run[task_id].idx][1],
                                            run[task_id].months[run[task_id].idx][2])
                      IN  /\ disk'[path].exists
                          /\ SeqToSet(disk'[path].rows) = ReturnedRows(run[task_id])
                          /\ Len(disk'[path].rows) = Cardinality(ReturnedRows(run[task_id]))
             /\ run[task_id].pc \notin {"save", "save_snapshot"}
                   => (run'[task_id] # run[task_id] => disk' = disk)]_vars

\* C30 witness: the fetch of the first symbol raised and that of the second
\* returned data; the task is COMPLETED and the month's file holds the one
\* row of the second symbol.
C30_Witness ==
    \E task_id \in DOMAIN run :
        /\ run[task_id].kind = "partition" /\ tasks[task_id].status = "COMPLETED"
        /\ run[task_id].months = << <<2024, 1>> >>
        /\ run[task_id].outcomes = <<"raises", "data">>
        /\ disk[MonthPath(PartTable, 2024, 1)].exists
        /\ Len(disk[MonthPath(PartTable, 2024, 1)].rows) = 1
        /\ disk[MonthPath(PartTable, 2024, 1)].rows[1].stock_code = <<"A", "change">>

====
